---------------------------- MODULE Spec2Model ----------------------------
(***************************************************************************)
(* Vendor normalization pipeline of the alternate-vendor procurement app   *)
(* (src/src/data/mockData.js, src/src/pages/*.jsx).                         *)
(*                                                                         *)
(* JavaScript values are tagged records [t |-> tag, v |-> payload]:        *)
(*   undefined, null, NaN   payload 0                                      *)
(*   boolean                payload TRUE / FALSE                           *)
(*   number                 payload an integer count of thousandths        *)
(*   string                 payload a sequence of one-character strings    *)
(*   array                  payload a sequence of values                   *)
(*   object                 payload a sequence of <<key, value>> pairs, in  *)
(*                          insertion order                                *)
(* One variable pc names the component a behaviour exercises and the       *)
(* position in it; every component has its own specification.              *)
(***************************************************************************)
EXTENDS Integers, Sequences, FiniteSets, TLC

VARIABLES
    pc,         \* component and position
    value,      \* cleanUrlCitations: the argument
    once,       \* cleanUrlCitations(value)
    twice,      \* cleanUrlCitations(cleanUrlCitations(value))
    str1,       \* isManufacturerDirect: vendorName
    str2,       \* isManufacturerDirect: manufacturerName
    score,      \* fuzzyMatch(str1, str2)
    direct,     \* isManufacturerDirect(str1, str2)
    scoreRev,   \* fuzzyMatch(str2, str1)
    directRev,  \* isManufacturerDirect(str2, str1)
    apiVendor,  \* transformApiVendor: the raw vendor document
    position,   \* transformApiVendor: the index in the list
    result,     \* transformApiVendor's return value, or the error thrown
    tabVendor,  \* SuitabilityScoreTab: the vendor prop
    rows,       \* scoreCategories of one render
    rowsAgain,  \* scoreCategories of a second render of the same vendor
    query,      \* Results: the q parameter of the URL
    filters,    \* Results: the filters state
    selectedVersion,    \* Results: the selectedVersion state
    availableVersions,  \* Results: the availableVersions state
    versionDate,        \* Results: the versionDate state
    vendors,    \* Results: the vendors state
    loading,    \* Results: the loading state
    inflight,   \* calls of api.getVendors that have not resolved
    issued,     \* number of calls of api.getVendors made
    changes,    \* number of changes the user made to filters and version
    answered,   \* the call that resolved last, with the backend's response to it
    returned,   \* the value that call resolved to
    newest,     \* the value of the last call that resolved before another was issued
    pageVendors,            \* Results: the vendors state, as fetched
    selected,               \* Results: the selectedVendors state (ids)
    allVendors,             \* Compare: what getVendors(productName, {}) resolves to
    sortBy,                 \* Results: the sortBy state
    comparisonAttributes,   \* Results: comparisonAttributes of the last render
    cards,                  \* Results: the props of the vendor cards rendered
    vendorIds,              \* Compare: the ids of the vendors parameter
    dynamicAttributeKeys    \* Compare: dynamicAttributeKeys of the last render

stripVars == <<value, once, twice>>
matchVars == <<str1, str2, score, direct, scoreRev, directRev>>
transformVars == <<apiVendor, position, result>>
tabVars == <<tabVendor, rows, rowsAgain>>
fetchVars == <<query, filters, selectedVersion, availableVersions, versionDate,
               vendors, loading, inflight, issued, changes, answered, returned, newest>>
unifyVars == <<pageVendors, sortBy, comparisonAttributes, cards, vendorIds,
               dynamicAttributeKeys, selected, allVendors>>
vars == <<pc, stripVars, matchVars, transformVars, tabVars, fetchVars, unifyVars>>

---------------------------------------------------------------------------
(* JavaScript values *)

Undefined == [t |-> "undefined", v |-> 0]
Null      == [t |-> "null", v |-> 0]
NaN       == [t |-> "NaN", v |-> 0]
Bool(b)   == [t |-> "boolean", v |-> b]
Num(c)    == [t |-> "number", v |-> c]
Whole(n)  == Num(1000 * n)
Str(s)    == [t |-> "string", v |-> s]
Arr(a)    == [t |-> "array", v |-> a]
Obj(f)    == [t |-> "object", v |-> f]
EmptyObj  == Obj(<<>>)

\* typeof x
TypeOf(x) ==
    CASE x.t = "NaN" -> "number"
      [] x.t \in {"null", "array"} -> "object"
      [] OTHER -> x.t

\* ToBoolean(x)
Truthy(x) ==
    CASE x.t \in {"undefined", "null", "NaN"} -> FALSE
      [] x.t = "boolean" -> x.v
      [] x.t = "number" -> x.v # 0
      [] x.t = "string" -> x.v # <<>>
      [] OTHER -> TRUE

\* a || b
Or(a, b) == IF Truthy(a) THEN a ELSE b

Min(S) == CHOOSE x \in S : \A y \in S : x <= y

\* whether object o has own property k
HasOwn(o, k) == o.t = "object" /\ \E i \in 1..Len(o.v) : o.v[i][1] = k

\* x[k], for x neither null nor undefined and k none of x's built-in properties
Get(x, k) ==
    IF HasOwn(x, k) THEN x.v[CHOOSE i \in 1..Len(x.v) : x.v[i][1] = k][2]
    ELSE Undefined

\* o[k] = val
Put(o, k, val) ==
    IF HasOwn(o, k)
    THEN Obj([i \in 1..Len(o.v) |-> IF o.v[i][1] = k THEN <<k, val>> ELSE o.v[i]])
    ELSE Obj(Append(o.v, <<k, val>>))

\* the property name of array index i
IndexKey(i) == <<"0", "1", "2", "3", "4", "5", "6", "7", "8", "9">>[i + 1]

\* Object.entries(x), for an object or an array
EntriesOf(x) ==
    IF x.t = "object" THEN x.v
    ELSE IF x.t = "array" THEN [i \in 1..Len(x.v) |-> <<IndexKey(i - 1), x.v[i]>>]
    ELSE <<>>

---------------------------------------------------------------------------
(* Characters *)

\* \s
IsSpace(c) == c \in {" ", "\n"}

\* . (any character but a line terminator)
IsDot(c) == c # "\n"

\* String.prototype.toLowerCase, on the letters the inputs use
ToLower(c) ==
    CASE c = "A" -> "a" [] c = "B" -> "b" [] c = "C" -> "c"
      [] c = "H" -> "h" [] c = "I" -> "i" [] c = "N" -> "n"
      [] c = "P" -> "p" [] c = "S" -> "s" [] c = "T" -> "t"
      [] c = "X" -> "x"
      [] OTHER -> c

\* \w
IsWordChar(c) ==
    c \in { "a", "b", "c", "d", "e", "f", "g", "h", "i", "j", "k", "l", "m",
            "n", "o", "p", "q", "r", "s", "t", "u", "v", "w", "x", "y", "z",
            "A", "B", "C", "D", "E", "F", "G", "H", "I", "J", "K", "L", "M",
            "N", "O", "P", "Q", "R", "S", "T", "U", "V", "W", "X", "Y", "Z",
            "0", "1", "2", "3", "4", "5", "6", "7", "8", "9", "_" }

\* the literal lit stands in s at position i, letter case ignored (the i flag)
HasAt(s, i, lit) ==
    /\ i >= 1
    /\ i + Len(lit) - 1 <= Len(s)
    /\ \A k \in 1..Len(lit) : ToLower(s[i + k - 1]) = lit[k]

\* https?:\/\/ matched at position i: the positions right after the match
SchemeEnds(s, i) ==
    (IF HasAt(s, i, <<"h", "t", "t", "p", ":", "/", "/">>) THEN {i + 7} ELSE {})
    \cup
    (IF HasAt(s, i, <<"h", "t", "t", "p", "s", ":", "/", "/">>) THEN {i + 8} ELSE {})

\* String.prototype.trim
RECURSIVE TrimLeft(_)
TrimLeft(s) == IF s # <<>> /\ IsSpace(Head(s)) THEN TrimLeft(Tail(s)) ELSE s

RECURSIVE TrimRight(_)
TrimRight(s) ==
    IF s # <<>> /\ IsSpace(s[Len(s)]) THEN TrimRight(SubSeq(s, 1, Len(s) - 1)) ELSE s

Trim(s) == TrimRight(TrimLeft(s))

---------------------------------------------------------------------------
(* cleanUrlCitations *)

\* /\s*\[https?:\/\/[^\]]+\]\s*$/i matches the suffix of s that starts at i
BracketCitationAt(s, i) ==
    \E j \in i..Len(s) :
        /\ \A k \in i..(j - 1) : IsSpace(s[k])
        /\ s[j] = "["
        /\ \E e \in SchemeEnds(s, j + 1) :
             \E k \in (e + 1)..Len(s) :
                /\ s[k] = "]"
                /\ \A m \in e..(k - 1) : s[m] # "]"
                /\ \A m \in (k + 1)..Len(s) : IsSpace(s[m])

\* /\s*\(\[.*?\]\(https?:\/\/[^)]+\)\)\s*$/i matches the suffix of s that starts at i
MarkdownCitationAt(s, i) ==
    \E j \in i..(Len(s) - 1) :
        /\ \A k \in i..(j - 1) : IsSpace(s[k])
        /\ s[j] = "("
        /\ s[j + 1] = "["
        /\ \E c \in (j + 2)..(Len(s) - 1) :
             /\ s[c] = "]"
             /\ s[c + 1] = "("
             /\ \A m \in (j + 2)..(c - 1) : IsDot(s[m])
             /\ \E e \in SchemeEnds(s, c + 2) :
                  \E k \in (e + 1)..(Len(s) - 1) :
                     /\ s[k] = ")"
                     /\ s[k + 1] = ")"
                     /\ \A m \in e..(k - 1) : s[m] # ")"
                     /\ \A m \in (k + 2)..Len(s) : IsSpace(s[m])

\* s.replace(re, '') for a pattern anchored at the end: the leftmost match goes
ReplaceBracket(s) ==
    LET starts == {i \in 1..Len(s) : BracketCitationAt(s, i)}
    IN  IF starts = {} THEN s ELSE SubSeq(s, 1, Min(starts) - 1)

ReplaceMarkdown(s) ==
    LET starts == {i \in 1..Len(s) : MarkdownCitationAt(s, i)}
    IN  IF starts = {} THEN s ELSE SubSeq(s, 1, Min(starts) - 1)

\* cleanUrlCitations(value)
cleanUrlCitations(x) ==
    IF TypeOf(x) # "string" THEN x
    ELSE LET cleaned == Trim(ReplaceMarkdown(Trim(ReplaceBracket(x.v))))
         IN  Or(Str(cleaned), x)

---------------------------------------------------------------------------
(* fuzzyMatch and isManufacturerDirect *)

\* s.replace(/\s+/g, ' '): every run of whitespace becomes one space
RECURSIVE CollapseSpaces(_)
CollapseSpaces(s) ==
    IF s = <<>> THEN <<>>
    ELSE IF IsSpace(Head(s))
         THEN <<" ">> \o CollapseSpaces(TrimLeft(s))
         ELSE <<Head(s)>> \o CollapseSpaces(Tail(s))

\* normalize: lower case, special characters to spaces, spaces collapsed, trimmed
normalize(s) ==
    LET lowered == [i \in 1..Len(s) |-> ToLower(s[i])]
        spaced  == [i \in 1..Len(s) |->
                      IF IsWordChar(lowered[i]) \/ IsSpace(lowered[i])
                      THEN lowered[i] ELSE " "]
    IN  Trim(CollapseSpaces(spaced))

\* a.includes(b), on strings
Includes(a, b) ==
    \E i \in 1..(Len(a) - Len(b) + 1) : SubSeq(a, i, i + Len(b) - 1) = b

\* s.split(sep), for a separator of one character
RECURSIVE Split(_, _)
Split(s, sep) ==
    IF \A i \in 1..Len(s) : s[i] # sep THEN <<s>>
    ELSE LET i == Min({k \in 1..Len(s) : s[k] = sep})
         IN  <<SubSeq(s, 1, i - 1)>> \o Split(SubSeq(s, i + 1, Len(s)), sep)

commonTerms ==
    { <<"l", "t", "d">>, <<"i", "n", "c">>, <<"c", "o", "r", "p">>, <<"c", "o">>,
      <<"c", "o", "m", "p", "a", "n", "y">>, <<"l", "l", "c">>, <<"g", "m", "b", "h">>,
      <<"a", "g">>, <<"s", "a">>, <<"p", "a", "r", "t">>, <<"o", "f">>,
      <<"t", "h", "e">>, <<"a", "n", "d">> }

\* the least token length extractKeyWords keeps is one more than this
ShortWord == 2

\* extractKeyWords
extractKeyWords(s) ==
    SelectSeq(Split(s, " "), LAMBDA w : Len(w) > ShortWord /\ w \notin commonTerms)

\* matchCount of loops without the break: every matching pair counts
MatchCountOfPairs(words1, words2) ==
    Cardinality({p \in (1..Len(words1)) \X (1..Len(words2)) :
        \/ words1[p[1]] = words2[p[2]]
        \/ Includes(words1[p[1]], words2[p[2]])
        \/ Includes(words2[p[2]], words1[p[1]])})

\* the words of words1 that match a word of words2 (the loops' matchCount)
MatchCount(words1, words2) ==
    Cardinality({i \in 1..Len(words1) :
        \E j \in 1..Len(words2) :
            \/ words1[i] = words2[j]
            \/ Includes(words1[i], words2[j])
            \/ Includes(words2[j], words1[i])})

\* a score n/d, in lowest terms
RECURSIVE GCD(_, _)
GCD(a, b) == IF b = 0 THEN a ELSE GCD(b, a % b)

Ratio(n, d) == [n |-> n \div GCD(n, d), d |-> d \div GCD(n, d)]

Max(a, b) == IF a >= b THEN a ELSE b

\* s.toLowerCase() exists
HasToLowerCase(x) == TypeOf(x) = "string"

\* whether fuzzyMatch(str1, str2) throws a TypeError
fuzzyMatchThrows(x1, x2) ==
    /\ Truthy(x1)
    /\ Truthy(x2)
    /\ ~ (HasToLowerCase(x1) /\ HasToLowerCase(x2))

\* fuzzyMatch with a second guard, on the normalized names: a name that
\* normalizes to nothing scores 0
fuzzyMatchOfBlank(x1, x2) ==
    IF ~ Truthy(x1) \/ ~ Truthy(x2) THEN Ratio(0, 1)
    ELSE LET norm1 == normalize(x1.v)
             norm2 == normalize(x2.v)
         IN  IF norm1 = <<>> \/ norm2 = <<>> THEN Ratio(0, 1)
             ELSE IF norm1 = norm2 THEN Ratio(1, 1)
             ELSE IF Includes(norm1, norm2) \/ Includes(norm2, norm1) THEN Ratio(9, 10)
             ELSE LET words1 == extractKeyWords(norm1)
                      words2 == extractKeyWords(norm2)
                  IN  IF Len(words1) = 0 \/ Len(words2) = 0 THEN Ratio(0, 1)
                      ELSE Ratio(MatchCount(words1, words2),
                                 Max(Len(words1), Len(words2)))

\* fuzzyMatch with the word loops ahead of the containment rule
fuzzyMatchWordsFirst(x1, x2) ==
    IF ~ Truthy(x1) \/ ~ Truthy(x2) THEN Ratio(0, 1)
    ELSE LET norm1 == normalize(x1.v)
             norm2 == normalize(x2.v)
             words1 == extractKeyWords(norm1)
             words2 == extractKeyWords(norm2)
         IN  IF norm1 = norm2 THEN Ratio(1, 1)
             ELSE IF Len(words1) > 0 /\ Len(words2) > 0
             THEN Ratio(MatchCount(words1, words2), Max(Len(words1), Len(words2)))
             ELSE IF Includes(norm1, norm2) \/ Includes(norm2, norm1) THEN Ratio(9, 10)
             ELSE Ratio(0, 1)

\* fuzzyMatch with a guard that lets the empty string through
fuzzyMatchOfEmpty(x1, x2) ==
    IF x1 \in {Null, Undefined} \/ x2 \in {Null, Undefined} THEN Ratio(0, 1)
    ELSE LET norm1 == normalize(x1.v)
             norm2 == normalize(x2.v)
         IN  IF norm1 = norm2 THEN Ratio(1, 1)
             ELSE IF Includes(norm1, norm2) \/ Includes(norm2, norm1) THEN Ratio(9, 10)
             ELSE LET words1 == extractKeyWords(norm1)
                      words2 == extractKeyWords(norm2)
                  IN  IF Len(words1) = 0 \/ Len(words2) = 0 THEN Ratio(0, 1)
                      ELSE Ratio(MatchCount(words1, words2),
                                 Max(Len(words1), Len(words2)))

\* fuzzyMatch(str1, str2), when it does not throw
fuzzyMatch(x1, x2) ==
    IF ~ Truthy(x1) \/ ~ Truthy(x2) THEN Ratio(0, 1)
    ELSE LET norm1 == normalize(x1.v)
             norm2 == normalize(x2.v)
         IN  IF norm1 = norm2 THEN Ratio(1, 1)
             ELSE IF Includes(norm1, norm2) \/ Includes(norm2, norm1) THEN Ratio(9, 10)
             ELSE LET words1 == extractKeyWords(norm1)
                      words2 == extractKeyWords(norm2)
                  IN  IF Len(words1) = 0 \/ Len(words2) = 0 THEN Ratio(0, 1)
                      ELSE Ratio(MatchCount(words1, words2),
                                 Max(Len(words1), Len(words2)))

\* r >= 0.5
AtLeastHalf(r) == 2 * r.n >= r.d

\* isManufacturerDirect with the comparison score > 0.5
isManufacturerDirectStrict(vendorName, manufacturerName) ==
    LET r == fuzzyMatch(vendorName, manufacturerName) IN 2 * r.n > r.d

\* isManufacturerDirect(vendorName, manufacturerName), when fuzzyMatch does not throw
isManufacturerDirect(vendorName, manufacturerName) ==
    AtLeastHalf(fuzzyMatch(vendorName, manufacturerName))

---------------------------------------------------------------------------
(* Numbers *)

IsDigit(c) == c \in {"0", "1", "2", "3", "4", "5", "6", "7", "8", "9"}

DigitVal(c) == CHOOSE d \in 0..9 : IndexKey(d) = c

RECURSIVE DigitsVal(_)
DigitsVal(s) ==
    IF s = <<>> THEN 0
    ELSE 10 * DigitsVal(SubSeq(s, 1, Len(s) - 1)) + DigitVal(s[Len(s)])

\* the thousandths a fraction of 0 to 3 digits stands for
FractionVal(s) ==
    CASE Len(s) = 0 -> 0
      [] Len(s) = 1 -> 100 * DigitsVal(s)
      [] Len(s) = 2 -> 10 * DigitsVal(s)
      [] OTHER -> DigitsVal(s)

\* ToNumber of a string: an unsigned decimal literal of at most three fraction
\* digits, or white space; the inputs hold no other numeric literal
StringToNumber(s) ==
    LET t    == Trim(s)
        dots == {i \in 1..Len(t) : t[i] = "."}
    IN  IF t = <<>> THEN Num(0)
        ELSE IF \A i \in 1..Len(t) : IsDigit(t[i]) THEN Whole(DigitsVal(t))
        ELSE IF /\ Cardinality(dots) = 1
                /\ Len(t) > 1
                /\ \A i \in 1..Len(t) : IsDigit(t[i]) \/ t[i] = "."
                /\ Len(t) - Min(dots) <= 3
             THEN LET d == Min(dots)
                  IN  Num(1000 * DigitsVal(SubSeq(t, 1, d - 1))
                          + FractionVal(SubSeq(t, d + 1, Len(t))))
        ELSE NaN

\* ToNumber(x)
RECURSIVE ToNumber(_)
ToNumber(x) ==
    CASE x.t = "number" -> x
      [] x.t = "null" -> Num(0)
      [] x.t = "boolean" -> IF x.v THEN Whole(1) ELSE Num(0)
      [] x.t = "string" -> StringToNumber(x.v)
      [] x.t = "array" ->
            IF Len(x.v) = 0 THEN Num(0)
            ELSE IF Len(x.v) > 1 THEN NaN
            ELSE IF x.v[1].t \in {"null", "undefined"} THEN Num(0)
            ELSE IF x.v[1].t \in {"number", "string", "array"} THEN ToNumber(x.v[1])
            ELSE NaN
      [] OTHER -> NaN

\* x * k, for an integer k
Times(x, k) == LET n == ToNumber(x) IN IF n.t = "number" THEN Num(n.v * k) ELSE NaN

\* Math.round(x): the nearest integer, halves up
MathRound(x) ==
    LET n == ToNumber(x)
    IN  IF n.t = "number" THEN Whole((n.v + 500) \div 1000) ELSE NaN

---------------------------------------------------------------------------
(* getSpecValue and transformApiVendor *)

NA == Str(<<"N", "A">>)

EmptyStr == Str(<<>>)

EXT == Str(<<"E", "X", "T">>)

\* getSpecValue(vendor, specKey)
getSpecValue(vendor, specKey) ==
    LET specs == Or(Get(vendor, "specs"), EmptyObj)
        entry == Get(specs, specKey)
    IN  IF Truthy(entry) /\ TypeOf(entry) = "object"
        THEN cleanUrlCitations(Get(entry, "value"))
        ELSE cleanUrlCitations(Get(vendor, specKey))

\* priceDisplay (lines 444-448)
priceDisplayOf(vendor) ==
    LET priceValue == getSpecValue(vendor, "price")
    IN  IF Truthy(priceValue) /\ priceValue # NA THEN priceValue ELSE NA

\* certifications (lines 451-460)
certificationsOf(vendor) ==
    LET certValue == getSpecValue(vendor, "certifications")
    IN  IF Truthy(certValue) /\ certValue # NA
        THEN IF certValue.t = "array"
             THEN Arr([i \in 1..Len(certValue.v) |-> cleanUrlCitations(certValue.v[i])])
             ELSE IF TypeOf(certValue) = "string"
             THEN LET parts == Split(certValue.v, ",")
                  IN  Arr(SelectSeq([i \in 1..Len(parts) |->
                                        cleanUrlCitations(Str(Trim(parts[i])))],
                                    Truthy))
             ELSE Arr(<<>>)
        ELSE Arr(<<>>)

\* the fallback score of list position index
positionalScore(index) == Whole(95 - (index * 3))

\* suitabilityScore (lines 463-468)
suitabilityScoreOf(vendor, index) ==
    IF Get(vendor, "suitability_score") # Undefined
    THEN Get(vendor, "suitability_score")
    ELSE IF Get(vendor, "recommendation_score") # Undefined
    THEN MathRound(Times(Get(vendor, "recommendation_score"), 100))
    ELSE positionalScore(index)

\* region (line 471)
regionOf(vendor) ==
    Or(Or(Get(vendor, "manufacturer_country"), Get(vendor, "region")), NA)

\* manufacturerName (line 474)
manufacturerNameOf(vendor) == Or(getSpecValue(vendor, "manufacturer"), EmptyStr)

fixedFields ==
    { "id", "vendor_name", "product_name", "product_description", "product_url",
      "discovery_confidence", "recommendation_score", "discovery_concerns",
      "specs_availability", "specs", "manufacturer_country", "region",
      "availability_status", "certifications", "price", "source_urls",
      "crawled_data", "crawled_at", "extracted_info", "suitability_score",
      "manufacturer", "isManufacturerDirect", "manufacturerName" }

\* the object literal transformedVendor (lines 488-517)
baseVendor(vendor, index) ==
    Obj(<< <<"id", Or(Get(vendor, "id"), Whole(index + 1))>>,
           <<"name", Get(vendor, "vendor_name")>>,
           <<"productName", Or(Get(vendor, "product_name"), EmptyStr)>>,
           <<"source", EXT>>,
           <<"isCurrentPartner", Bool(FALSE)>>,
           <<"isPreferred", Bool(index = 0)>>,
           <<"isBestValue", Bool(FALSE)>>,
           <<"isManufacturerDirect",
             Bool(isManufacturerDirect(Get(vendor, "vendor_name"),
                                       manufacturerNameOf(vendor)))>>,
           <<"manufacturerName", Or(manufacturerNameOf(vendor), Null)>>,
           <<"unitPrice", Null>>,
           <<"unitPriceDisplay", priceDisplayOf(vendor)>>,
           <<"totalEstCost", Null>>,
           <<"availableQty", Null>>,
           <<"region", regionOf(vendor)>>,
           <<"leadTime", Or(getSpecValue(vendor, "lead_time"), NA)>>,
           <<"suitabilityScore", suitabilityScoreOf(vendor, index)>>,
           <<"certifications", certificationsOf(vendor)>>,
           <<"shelfLife", Or(getSpecValue(vendor, "shelf_life"), NA)>>,
           <<"packaging", Or(Or(getSpecValue(vendor, "plate_format"),
                                getSpecValue(vendor, "pack_size")), NA)>>,
           <<"storage", Or(getSpecValue(vendor, "storage_condition"), NA)>>,
           <<"internalHistory", Null>>,
           <<"riskAssessment", Null>>,
           <<"website", Or(Get(vendor, "product_url"), EmptyStr)>>,
           <<"lat", Null>>,
           <<"lng", Null>>,
           <<"_apiData", vendor>> >>)

\* the loop over Object.entries(vendor.specs) (lines 521-531)
RECURSIVE copySpecs(_, _)
copySpecs(entries, transformedVendor) ==
    IF entries = <<>> THEN transformedVendor
    ELSE LET key     == Head(entries)[1]
             specObj == Head(entries)[2]
             cleanedValue == cleanUrlCitations(Get(specObj, "value"))
             copied ==
                IF key \in {"price", "certifications"} THEN transformedVendor
                ELSE IF /\ Truthy(specObj)
                        /\ TypeOf(specObj) = "object"
                        /\ Get(specObj, "value") # Undefined
                        /\ Truthy(cleanedValue)
                        /\ cleanedValue # NA
                THEN Put(transformedVendor, key, cleanedValue)
                ELSE transformedVendor
         IN  copySpecs(Tail(entries), copied)

\* the loop over Object.entries(vendor) (lines 535-543)
RECURSIVE copyLegacy(_, _)
copyLegacy(entries, transformedVendor) ==
    IF entries = <<>> THEN transformedVendor
    ELSE LET key == Head(entries)[1]
             val == Head(entries)[2]
             copied ==
                IF /\ key \notin fixedFields
                   /\ ~ HasOwn(transformedVendor, key)
                   /\ val # Null
                   /\ val # Undefined
                THEN IF TypeOf(val) = "string"
                     THEN Put(transformedVendor, key, cleanUrlCitations(val))
                     ELSE IF TypeOf(val) # "object"
                     THEN Put(transformedVendor, key, val)
                     ELSE transformedVendor
                ELSE transformedVendor
         IN  copyLegacy(Tail(entries), copied)

\* whether transformApiVendor(vendor, index) throws (in fuzzyMatch, line 475)
transformThrows(vendor, index) ==
    fuzzyMatchThrows(Get(vendor, "vendor_name"), manufacturerNameOf(vendor))

\* transformApiVendor(vendor, index), when it does not throw
transformApiVendor(vendor, index) ==
    LET specs  == Get(vendor, "specs")
        based  == baseVendor(vendor, index)
        speced == IF Truthy(specs) /\ TypeOf(specs) = "object"
                  THEN copySpecs(EntriesOf(specs), based)
                  ELSE based
    IN  copyLegacy(EntriesOf(vendor), speced)

---------------------------------------------------------------------------
(* SuitabilityScoreTab (src/src/pages/VendorDetail.jsx) *)

INT == Str(<<"I", "N", "T">>)

\* Math.min(a, b)
MathMin(a, b) ==
    LET x == ToNumber(a)
        y == ToNumber(b)
    IN  IF x.t # "number" \/ y.t # "number" THEN NaN
        ELSE IF x.v <= y.v THEN x ELSE y

\* a <= b
LessEq(a, b) ==
    LET x == ToNumber(a)
        y == ToNumber(b)
    IN  x.t = "number" /\ y.t = "number" /\ x.v <= y.v

\* a >= b
GreaterEq(a, b) == LessEq(b, a)

\* x.length
LengthOf(x) == IF x.t \in {"array", "string"} THEN Whole(Len(x.v)) ELSE Undefined

\* the values of Math.round((totalScore / 100) * weight + Math.random() * spread):
\* Math.random() is any real r with 0 <= r < 1, and the arithmetic is exact
RoundedShares(totalScore, weight, spread) ==
    LET total == ToNumber(totalScore)
        base  == total.v * weight
        low   == (base + 50000) \div 100000
        high  == -((-(base + (spread * 100000) + 50000)) \div 100000) - 1
    IN  IF total.t # "number" THEN {NaN}
        ELSE {Whole(n) : n \in low..high}

\* Math.round((totalScore / 100) * weight)
RoundedShare(totalScore, weight) ==
    LET total == ToNumber(totalScore)
    IN  IF total.t # "number" THEN NaN
        ELSE Whole(((total.v * weight) + 50000) \div 100000)

totalScoreOf(v) == Or(Get(v, "suitabilityScore"), Whole(95))

priceScores(v) == RoundedShares(totalScoreOf(v), 38, 2)

availabilityScores(v) == RoundedShares(totalScoreOf(v), 27, 3)

qualityScore(v) ==
    IF GreaterEq(LengthOf(Get(v, "certifications")), Whole(2))
    THEN Whole(20)
    ELSE RoundedShare(totalScoreOf(v), 20)

dataConfidenceScore(v) ==
    IF Truthy(Get(v, "isCurrentPartner")) \/ Get(v, "source") = INT
    THEN Whole(10)
    ELSE RoundedShare(totalScoreOf(v), 10)

\* scoreCategories, for the two random draws that gave priceScore and availabilityScore
scoreCategories(v, priceScore, availabilityScore) ==
    << [name |-> "Price Competitiveness",
        score |-> MathMin(priceScore, Whole(40)), maxScore |-> 40, weight |-> 40],
       [name |-> "Availability & Lead Time",
        score |-> MathMin(availabilityScore, Whole(30)), maxScore |-> 30, weight |-> 30],
       [name |-> "Quality & Compliance",
        score |-> MathMin(qualityScore(v), Whole(20)), maxScore |-> 20, weight |-> 20],
       [name |-> "Data Confidence",
        score |-> MathMin(dataConfidenceScore(v), Whole(10)), maxScore |-> 10, weight |-> 10] >>

---------------------------------------------------------------------------
(* api.getVendors (src/src/data/mockData.js) *)

\* the certification and region strings of mockVendors and of the filter checkboxes
Text ==
    [ GMP |-> Str(<<"G", "M", "P">>),
      ISO9001 |-> Str(<<"I", "S", "O", " ", "9", "0", "0", "1">>),
      USFDA |-> Str(<<"U", "S", " ", "F", "D", "A">>),
      EUGMP |-> Str(<<"E", "U", " ", "G", "M", "P">>),
      WHOGMP |-> Str(<<"W", "H", "O", " ", "G", "M", "P">>),
      FDAApproved |-> Str(<<"F", "D", "A", " ", "A", "p", "p", "r", "o", "v", "e", "d">>),
      TGAApproved |-> Str(<<"T", "G", "A", " ", "A", "p", "p", "r", "o", "v", "e", "d">>),
      PMDA |-> Str(<<"P", "M", "D", "A">>),
      ANVISA |-> Str(<<"A", "N", "V", "I", "S", "A">>),
      India |-> Str(<<"I", "n", "d", "i", "a">>),
      AsiaPacific |-> Str(<<"A", "s", "i", "a", " ", "P", "a", "c", "i", "f", "i", "c">>),
      Europe |-> Str(<<"E", "u", "r", "o", "p", "e">>),
      NorthAmerica |-> Str(<<"N", "o", "r", "t", "h", " ", "A", "m", "e", "r", "i", "c", "a">>),
      Other |-> Str(<<"O", "t", "h", "e", "r">>) ]

\* one element of mockVendors, with the fields getVendors and its callers compare
MockVendor(id, source, isCurrentPartner, unitPrice, region, suitabilityScore, certifications) ==
    Obj(<< <<"id", Whole(id)>>,
           <<"source", source>>,
           <<"isCurrentPartner", Bool(isCurrentPartner)>>,
           <<"unitPrice", Num(unitPrice)>>,
           <<"region", region>>,
           <<"suitabilityScore", Whole(suitabilityScore)>>,
           <<"certifications", Arr(certifications)>> >>)

mockVendors ==
    << MockVendor(1, INT, TRUE, 12000, Text.India, 95, <<Text.GMP, Text.ISO9001>>),
       MockVendor(2, EXT, FALSE, 8500, Text.India, 94, <<Text.ISO9001>>),
       MockVendor(3, EXT, FALSE, 9500, Text.AsiaPacific, 91, <<Text.GMP>>),
       MockVendor(4, INT, TRUE, 12800, Text.Europe, 89, <<Text.USFDA>>),
       MockVendor(5, INT, TRUE, 14000, Text.NorthAmerica, 88, <<Text.GMP, Text.ISO9001, Text.USFDA>>),
       MockVendor(6, EXT, FALSE, 7500, Text.India, 86, <<Text.GMP, Text.WHOGMP>>),
       MockVendor(7, EXT, FALSE, 13500, Text.Europe, 92, <<Text.GMP, Text.ISO9001, Text.EUGMP, Text.FDAApproved>>),
       MockVendor(8, EXT, FALSE, 11800, Text.AsiaPacific, 84, <<Text.GMP, Text.TGAApproved>>),
       MockVendor(9, EXT, FALSE, 15200, Text.AsiaPacific, 90, <<Text.GMP, Text.ISO9001, Text.PMDA>>),
       MockVendor(10, EXT, FALSE, 16000, Text.Europe, 87, <<Text.GMP, Text.ISO9001, Text.EUGMP>>),
       MockVendor(11, EXT, FALSE, 6800, Text.India, 82, <<Text.GMP>>),
       MockVendor(12, EXT, FALSE, 10500, Text.NorthAmerica, 83, <<Text.GMP, Text.ANVISA>>) >>

\* array.includes(x)
ArrIncludes(array, x) == \E i \in 1..Len(array.v) : array.v[i] = x

\* whether x?.length is truthy
HasLength(x) == x.t \in {"array", "string"} /\ Len(x.v) > 0

\* the six filters of getVendors, applied in the order of the code (lines 606-631, 643-668)
applyFilters(list, f) ==
    LET source == Get(f, "source")
        minSuitability == Get(f, "minSuitability")
        certifications == Get(f, "certifications")
        priceRange == Get(f, "priceRange")
        locations == Get(f, "locations")
        bySource(v) == ArrIncludes(source, Get(v, "source"))
        bySuitability(v) == GreaterEq(Get(v, "suitabilityScore"), minSuitability)
        byCertification(v) ==
            \E i \in 1..Len(certifications.v) :
                ArrIncludes(Get(v, "certifications"), certifications.v[i])
        byPrice(v) ==
            /\ Get(v, "unitPrice") # Null
            /\ GreaterEq(Get(v, "unitPrice"), priceRange.v[1])
            /\ LessEq(Get(v, "unitPrice"), priceRange.v[2])
        byPartner(v) == Truthy(Get(v, "isCurrentPartner"))
        byLocation(v) == ArrIncludes(locations, Get(v, "region"))
        v1 == IF HasLength(source) THEN SelectSeq(list, bySource) ELSE list
        v2 == IF Truthy(minSuitability) THEN SelectSeq(v1, bySuitability) ELSE v1
        v3 == IF HasLength(certifications) THEN SelectSeq(v2, byCertification) ELSE v2
        v4 == IF Truthy(priceRange) THEN SelectSeq(v3, byPrice) ELSE v3
        v5 == IF Truthy(Get(f, "currentPartnerOnly")) THEN SelectSeq(v4, byPartner) ELSE v4
    IN  IF HasLength(locations) THEN SelectSeq(v5, byLocation) ELSE v5

\* (a, b) => b.suitabilityScore - a.suitabilityScore is positive: b sorts before a
SortsBefore(b, a) ==
    LET x == ToNumber(Get(b, "suitabilityScore"))
        y == ToNumber(Get(a, "suitabilityScore"))
    IN  x.t = "number" /\ y.t = "number" /\ x.v > y.v

\* vendors.sort(...) (Array.prototype.sort is stable): v goes behind the last
\* element that it does not sort before
RECURSIVE SortedInsert(_, _)
SortedInsert(sorted, v) ==
    IF sorted = <<>> THEN <<v>>
    ELSE IF SortsBefore(v, sorted[Len(sorted)])
    THEN Append(SortedInsert(SubSeq(sorted, 1, Len(sorted) - 1), v), sorted[Len(sorted)])
    ELSE Append(sorted, v)

RECURSIVE sortBySuitability(_)
sortBySuitability(list) ==
    IF list = <<>> THEN <<>>
    ELSE SortedInsert(sortBySuitability(SubSeq(list, 1, Len(list) - 1)),
                      list[Len(list)])

\* a response of the backend: fetch rejects, or resolves with a status and a body
NetworkError == [rejects |-> TRUE, ok |-> FALSE, data |-> Undefined]

NotOk == [rejects |-> FALSE, ok |-> FALSE, data |-> Undefined]

OkWith(data) == [rejects |-> FALSE, ok |-> TRUE, data |-> data]

\* whether the try block of getVendors throws on the body (lines 593-594)
bodyThrows(data) ==
    \/ data.t \in {"null", "undefined"}
    \/ /\ Truthy(Get(data, "found"))
       /\ \/ Get(data, "vendors").t \in {"null", "undefined"}
          \/ Get(data, "vendors").t = "string" /\ Get(data, "vendors").v # <<>>
          \/ /\ Get(data, "vendors").t = "array"
             /\ \E i \in 1..Len(Get(data, "vendors").v) :
                    \/ Get(data, "vendors").v[i].t \in {"null", "undefined"}
                    \/ transformThrows(Get(data, "vendors").v[i], i - 1)

\* whether getVendors returns the backend's vendors (lines 591-594)
servesBackend(response) ==
    /\ ~ response.rejects
    /\ response.ok
    /\ ~ bodyThrows(response.data)
    /\ Truthy(Get(response.data, "found"))
    /\ GreaterEq(LengthOf(Get(response.data, "vendors")), Whole(1))

\* the value returned at lines 637-640
backendResult(data, f) ==
    LET raw == Get(data, "vendors").v
        transformed == [i \in 1..Len(raw) |-> transformApiVendor(raw[i], i - 1)]
    IN  Obj(<< <<"vendors", Arr(sortBySuitability(applyFilters(transformed, f)))>>,
               <<"version", Get(data, "version")>>,
               <<"currentVersion", Get(data, "currentVersion")>>,
               <<"availableVersions", Or(Get(data, "availableVersions"), Arr(<<>>))>>,
               <<"last_updated", Get(data, "last_updated")>> >>)

\* the value returned at lines 680-686
fallbackResult(f) ==
    LET list == sortBySuitability(applyFilters(mockVendors, f))
    IN  Obj(<< <<"vendors", Arr(list)>>,
               <<"version", Whole(1)>>,
               <<"currentVersion", Whole(1)>>,
               <<"availableVersions",
                 Arr(<< Obj(<< <<"version", Whole(1)>>,
                               <<"date", EmptyStr>>,
                               <<"vendorCount", Whole(Len(list))>> >>) >>)>>,
               <<"last_updated", EmptyStr>> >>)

\* what getVendors(productQuery, filters, version) resolves to when the backend
\* answers with response
getVendors(response, f) ==
    IF servesBackend(response)
    THEN backendResult(response.data, f)
    ELSE fallbackResult(f)

---------------------------------------------------------------------------
(* The attribute unifier of the Results page and of the Compare page *)

\* whether k is an integer-like property name
IsIndexKey(k) == \E d \in 0..9 : IndexKey(d) = k

\* Object.keys(o): integer-like keys in ascending order, then the others in
\* insertion order
KeysOf(o) ==
    LET inserted == [i \in 1..Len(o.v) |-> o.v[i][1]]
        indexKeys(d) ==
            IF \E i \in 1..Len(inserted) : inserted[i] = IndexKey(d)
            THEN <<IndexKey(d)>> ELSE <<>>
    IN  indexKeys(0) \o indexKeys(1) \o indexKeys(2) \o indexKeys(3) \o indexKeys(4)
        \o indexKeys(5) \o indexKeys(6) \o indexKeys(7) \o indexKeys(8) \o indexKeys(9)
        \o SelectSeq(inserted, LAMBDA k : ~ IsIndexKey(k))

\* [...new Set(keys)]: the first occurrence of every key, in order
RECURSIVE Unique(_)
Unique(keys) ==
    IF keys = <<>> THEN <<>>
    ELSE LET front == Unique(SubSeq(keys, 1, Len(keys) - 1))
             last  == keys[Len(keys)]
         IN  IF \E i \in 1..Len(front) : front[i] = last THEN front
             ELSE Append(front, last)

\* the concatenation of the arrays of a flatMap
RECURSIVE Flat(_)
Flat(arrays) ==
    IF arrays = <<>> THEN <<>> ELSE Head(arrays) \o Flat(Tail(arrays))

\* fixedFields of Results (lines 120-127)
resultsFixedFields ==
    { "id", "name", "productName", "source", "isCurrentPartner", "isPreferred",
      "isBestValue", "isFastest", "unitPrice", "unitPriceDisplay", "totalEstCost",
      "availableQty", "region", "leadTime", "suitabilityScore", "certifications",
      "internalHistory", "riskAssessment", "website", "lat", "lng", "_apiData",
      "vendor_name", "product_url", "availability_status", "price",
      "product_description", "crawled_data", "crawled_at", "extracted_info",
      "source_urls", "shelfLife", "packaging", "storage", "locking",
      "isManufacturerDirect", "manufacturerName" }

\* fixedFields of Compare (lines 44-51)
compareFixedFields ==
    { "id", "name", "productName", "source", "isCurrentPartner", "isPreferred",
      "isBestValue", "isFastest", "unitPrice", "unitPriceDisplay", "totalEstCost",
      "availableQty", "region", "leadTime", "suitabilityScore", "certifications",
      "internalHistory", "riskAssessment", "website", "lat", "lng", "_apiData",
      "vendor_name", "product_url", "availability_status", "price",
      "product_description", "crawled_data", "crawled_at", "extracted_info",
      "source_urls", "shelfLife", "packaging", "storage", "locking",
      "isManufacturerDirect", "url" }

\* parseInt(x), for a string or a number that is not negative
ParseInt(x) ==
    IF x.t = "number" /\ x.v >= 0 THEN Whole(x.v \div 1000)
    ELSE IF x.t # "string" THEN NaN
    ELSE LET s == TrimLeft(x.v)
             digits == {n \in 0..Len(s) : \A i \in 1..n : IsDigit(s[i])}
             n == CHOOSE m \in digits : \A k \in digits : k <= m
         IN  IF n = 0 THEN NaN ELSE Whole(DigitsVal(SubSeq(s, 1, n)))

\* whether the comparator of sortedVendors (lines 101-112) is positive for
\* (a, b): b sorts before a
SortsAfter(a, b, by) ==
    LET diff(x, y) == x.t = "number" /\ y.t = "number" /\ x.v > y.v
    IN  CASE by = "price" ->
                IF Get(a, "unitPrice") = Null /\ Get(b, "unitPrice") = Null THEN FALSE
                ELSE IF Get(a, "unitPrice") = Null THEN TRUE
                ELSE IF Get(b, "unitPrice") = Null THEN FALSE
                ELSE diff(ToNumber(Get(a, "unitPrice")), ToNumber(Get(b, "unitPrice")))
          [] by = "leadTime" ->
                diff(ParseInt(Get(a, "leadTime")), ParseInt(Get(b, "leadTime")))
          [] OTHER -> SortsBefore(b, a)

\* [...vendors].sort(...) (a stable sort): v goes behind the last element that
\* does not sort after it
RECURSIVE SortedInto(_, _, _)
SortedInto(sorted, v, by) ==
    IF sorted = <<>> THEN <<v>>
    ELSE IF SortsAfter(sorted[Len(sorted)], v, by)
    THEN Append(SortedInto(SubSeq(sorted, 1, Len(sorted) - 1), v, by), sorted[Len(sorted)])
    ELSE Append(sorted, v)

RECURSIVE sortedVendors(_, _)
sortedVendors(list, by) ==
    IF list = <<>> THEN <<>>
    ELSE SortedInto(sortedVendors(SubSeq(list, 1, Len(list) - 1), by), list[Len(list)], by)

\* allDynamicKeys of Results (lines 130-134)
allDynamicKeys(list) ==
    LET keysOf(vendor) == SelectSeq(KeysOf(vendor), LAMBDA key : key \notin resultsFixedFields)
    IN  Unique(Flat([i \in 1..Len(list) |-> keysOf(list[i])]))

\* allDynamicKeys handed on without the slice
comparisonAttributesUncapped(list) == allDynamicKeys(list)

\* allDynamicKeys.slice(0, 4) (line 137)
comparisonAttributesOf(list) ==
    LET keys == allDynamicKeys(list)
    IN  SubSeq(keys, 1, IF Len(keys) < 4 THEN Len(keys) ELSE 4)

\* dynamicAttributeKeys cut to four keys, as the vendor cards of Results are
dynamicAttributeKeysCapped(list) ==
    LET keysOf(vendor) ==
            SelectSeq(KeysOf(vendor),
                      LAMBDA key : /\ key \notin compareFixedFields
                                   /\ ~ (Get(vendor, key) \in {Null, Undefined, NA, EmptyStr}))
        keys == Unique(Flat([i \in 1..Len(list) |-> keysOf(list[i])]))
    IN  SubSeq(keys, 1, IF Len(keys) < 4 THEN Len(keys) ELSE 4)

\* dynamicAttributeKeys of Compare (lines 54-64)
dynamicAttributeKeysOf(list) ==
    LET keysOf(vendor) ==
            SelectSeq(KeysOf(vendor),
                      LAMBDA key : /\ key \notin compareFixedFields
                                   /\ Get(vendor, key) # Null
                                   /\ Get(vendor, key) # Undefined
                                   /\ Get(vendor, key) # NA
                                   /\ Get(vendor, key) # EmptyStr)
    IN  Unique(Flat([i \in 1..Len(list) |-> keysOf(list[i])]))

\* the decimal digits of a natural number
RECURSIVE DigitsOf(_)
DigitsOf(n) ==
    IF n < 10 THEN <<IndexKey(n)>> ELSE Append(DigitsOf(n \div 10), IndexKey(n % 10))

\* ids.join(','): the characters of the vendors parameter that handleCompare
\* puts into the url (Results.jsx line 71); null and undefined give no characters
RECURSIVE joinIds(_)
joinIds(ids) ==
    LET text(x) == CASE x.t = "string" -> x.v
                     [] x.t = "number" /\ x.v >= 0 /\ x.v % 1000 = 0 -> DigitsOf(x.v \div 1000)
                     [] x.t \in {"null", "undefined"} -> <<>>
    IN  IF ids = <<>> THEN <<>>
        ELSE IF Len(ids) = 1 THEN text(ids[1])
        ELSE text(ids[1]) \o <<",">> \o joinIds(Tail(ids))

\* vendorIds of Compare (line 10), for the characters of the vendors parameter
vendorIdsOf(param) ==
    LET pieces == Split(Or(Str(param), EmptyStr).v, ",")
        numbers == [i \in 1..Len(pieces) |-> ToNumber(Str(pieces[i]))]
    IN  SelectSeq(numbers, Truthy)

\* selectedVendors of Compare (line 41)
selectedVendorsOf(list, ids) ==
    SelectSeq(list, LAMBDA v : \E i \in 1..Len(ids) : ids[i] = Get(v, "id"))

---------------------------------------------------------------------------
(* Inputs of cleanUrlCitations: texts made of at most MaxPieces pieces *)

MaxPieces == 3

Pieces ==
    { <<"a">>,
      <<" ">>,
      <<"[", "b", "]">>,
      <<" ", "[", "h", "t", "t", "p", ":", "/", "/", "x", "]">>,
      <<"[", "H", "T", "T", "P", "S", ":", "/", "/", "y", "]">>,
      <<" ", "(", "[", "t", "]", "(", "h", "t", "t", "p", ":", "/", "/", "u", ")", ")">> }

RECURSIVE Texts(_)
Texts(n) ==
    IF n = 0 THEN {<<>>}
    ELSE LET shorter == Texts(n - 1)
         IN  shorter \cup {t \o p : t \in shorter, p \in Pieces}

---------------------------------------------------------------------------
(* Component: the Citation Stripper applied once and twice *)

StripIdle ==
    /\ value = Undefined
    /\ once = Undefined
    /\ twice = Undefined

MatchIdle ==
    /\ str1 = Undefined
    /\ str2 = Undefined
    /\ score = [n |-> 0, d |-> 1]
    /\ direct = FALSE
    /\ scoreRev = [n |-> 0, d |-> 1]
    /\ directRev = FALSE

TransformIdle ==
    /\ apiVendor = Undefined
    /\ position = 0
    /\ result = Undefined

TabIdle ==
    /\ tabVendor = Undefined
    /\ rows = <<>>
    /\ rowsAgain = <<>>

FetchIdle ==
    /\ query = Undefined
    /\ filters = Undefined
    /\ selectedVersion = Undefined
    /\ availableVersions = Undefined
    /\ versionDate = Undefined
    /\ vendors = Undefined
    /\ loading = FALSE
    /\ inflight = {}
    /\ issued = 0
    /\ changes = 0
    /\ answered = Undefined
    /\ returned = Undefined
    /\ newest = Undefined

UnifyIdle ==
    /\ pageVendors = <<>>
    /\ sortBy = ""
    /\ comparisonAttributes = <<>>
    /\ cards = <<>>
    /\ vendorIds = <<>>
    /\ dynamicAttributeKeys = <<>>
    /\ selected = <<>>
    /\ allVendors = <<>>

InitStrip ==
    /\ pc = "strip"
    /\ value \in {Str(s) : s \in Texts(MaxPieces)} \cup {Null, Whole(5)}
    /\ once = Undefined
    /\ twice = Undefined
    /\ MatchIdle
    /\ TransformIdle
    /\ TabIdle
    /\ FetchIdle
    /\ UnifyIdle

StripOnce ==
    /\ pc = "strip"
    /\ once' = cleanUrlCitations(value)
    /\ pc' = "stripped"
    /\ UNCHANGED <<value, twice, matchVars, transformVars, tabVars, fetchVars, unifyVars>>

StripTwice ==
    /\ pc = "stripped"
    /\ twice' = cleanUrlCitations(once)
    /\ pc' = "restripped"
    /\ UNCHANGED <<value, once, matchVars, transformVars, tabVars, fetchVars, unifyVars>>

NextStrip == StripOnce \/ StripTwice

SpecStrip == InitStrip /\ [][NextStrip]_vars

---------------------------------------------------------------------------
(* Inputs of fuzzyMatch: names of at most MaxWords words *)

MaxWords == 2

NameWords ==
    { <<"a", "b", "c">>,
      <<"a", "b", "c", "d">>,
      <<"x", "y", "z">>,
      <<"I", "n", "c", ".">>,
      <<"-">> }

RECURSIVE Names(_)
Names(n) ==
    IF n = 1 THEN NameWords
    ELSE LET shorter == Names(n - 1)
         IN  shorter \cup {t \o <<" ">> \o w : t \in shorter, w \in NameWords}

NameValues ==
    {Str(s) : s \in Names(MaxWords)} \cup {Str(<<" ">>), Str(<<>>), Null, Undefined}

---------------------------------------------------------------------------
(* Component: the Identity Resolver applied to a pair of names, both ways *)

NoScore == Ratio(0, 1)

InitMatch ==
    /\ pc = "match"
    /\ str1 \in NameValues
    /\ str2 \in NameValues
    /\ score = NoScore
    /\ direct = FALSE
    /\ scoreRev = NoScore
    /\ directRev = FALSE
    /\ StripIdle
    /\ TransformIdle
    /\ TabIdle
    /\ FetchIdle
    /\ UnifyIdle

Classify ==
    /\ pc = "match"
    /\ score' = fuzzyMatch(str1, str2)
    /\ direct' = isManufacturerDirect(str1, str2)
    /\ pc' = "matched"
    /\ UNCHANGED <<str1, str2, scoreRev, directRev, stripVars, transformVars, tabVars, fetchVars, unifyVars>>

ClassifyReverse ==
    /\ pc = "matched"
    /\ scoreRev' = fuzzyMatch(str2, str1)
    /\ directRev' = isManufacturerDirect(str2, str1)
    /\ pc' = "rematched"
    /\ UNCHANGED <<str1, str2, score, direct, stripVars, transformVars, tabVars, fetchVars, unifyVars>>

NextMatch == Classify \/ ClassifyReverse

SpecMatch == InitMatch /\ [][NextMatch]_vars

---------------------------------------------------------------------------
(* Inputs of transformApiVendor: raw vendor documents *)

MaxIndex == 32

MaxSpecKeys == 1

PlainText    == <<"a">>
Cited        == <<"a", " ", "[", "h", "t", "t", "p", ":", "/", "/", "x", "]">>
CitedTwice   == Cited \o <<" ", "[", "h", "t", "t", "p", ":", "/", "/", "x", "]">>
OnlyCitation == <<"[", "h", "t", "t", "p", ":", "/", "/", "x", "]">>
CertList     == <<"U", "S", "P", ",", " ", "E", "P", " ",
                  "[", "h", "t", "t", "p", ":", "/", "/", "x", "]">>
VendorText   == <<"a", "b", "c">>

\* what a spec's value field, or a legacy top-level field, may hold
ValueVals ==
    { Null, EmptyStr, NA, Str(PlainText), Str(Cited), Str(CitedTwice),
      Str(OnlyCitation), Str(CertList), Whole(5),
      Arr(<<Str(Cited), Str(CitedTwice)>>), EmptyObj }

\* what an entry of specs may be
EntryVals ==
    { Null, Str(PlainText), Whole(5), Arr(<<>>), EmptyObj }
    \cup { Obj(<< <<"value", val>> >>) : val \in ValueVals }
    \cup { Obj(<< <<"value", Str(Cited)>>, <<"confidence", Str(<<"l", "o", "w">>)>> >>) }

SpecKeys ==
    { "price", "certifications", "manufacturer", "lead_time", "storage_condition",
      "purity", "name", "region", "suitabilityScore" }

LegacyKeys ==
    { "price", "certifications", "manufacturer", "lead_time", "grade", "name",
      "region", "manufacturer_country", "id" }

\* the specs objects of n entries, in every order of the keys
RECURSIVE SpecsOf(_)
SpecsOf(n) ==
    IF n = 0 THEN {<<>>}
    ELSE { Append(sp, <<k, e>>) :
             sp \in SpecsOf(n - 1),
             k \in SpecKeys,
             e \in EntryVals }

WellFormedSpecs ==
    { sp \in UNION { SpecsOf(n) : n \in 0..MaxSpecKeys } :
        \A i, j \in 1..Len(sp) : sp[i][1] = sp[j][1] => i = j }

Named == << <<"vendor_name", Str(VendorText)>> >>

\* documents that differ in their specs
SpecDocs == { Obj(Named \o << <<"specs", Obj(sp)>> >>) : sp \in WellFormedSpecs }

\* documents with a legacy top-level field, with and without a spec of that name
LegacyDocs ==
    { Obj(Named \o << <<k, val>> >>) : k \in LegacyKeys, val \in ValueVals }
    \cup
    { Obj(Named \o << <<"specs", Obj(<< <<k, e>> >>)>>, <<k, val>> >>) :
        k \in LegacyKeys \cap SpecKeys, e \in EntryVals, val \in ValueVals }

\* documents whose specs is no object of entries
ShapeDocs ==
    { Obj(Named \o << <<"specs", sp>> >>) :
        sp \in { Null, Str(PlainText), Whole(5),
                 Arr(<<Obj(<< <<"value", Str(Cited)>> >>)>>) } }

NameVals ==
    { Null, EmptyStr, Str(VendorText), Str(<<"B", "a", "n", "a", "n", "a">>),
      Whole(42), Arr(<<Str(VendorText)>>), EmptyObj }

ManufacturerVals ==
    { Null, EmptyStr, NA, Str(VendorText), Str(<<"a", "b", "c", " ", "I", "n", "c", ".">>),
      Str(<<"x", "y", "z">>), Whole(7), Arr(<<Str(VendorText)>>), EmptyObj }

\* documents that differ in the vendor name and the manufacturer
NameDocs ==
    { Obj(<< <<"vendor_name", vn>>,
             <<"specs", Obj(<< <<"manufacturer", Obj(<< <<"value", m>> >>)>> >>)>> >>) :
        vn \in NameVals, m \in ManufacturerVals }
    \cup { Obj(<< <<"specs", Obj(<< <<"manufacturer", Obj(<< <<"value", m>> >>)>> >>)>> >>) :
             m \in ManufacturerVals }
    \cup { Obj(<< <<"vendor_name", vn>> >>) : vn \in NameVals }
    \cup { EmptyObj }

SuitabilityVals ==
    { Whole(0), Whole(49), Whole(85), Whole(100), Whole(150), Null,
      Str(<<"8", "5">>), Str(<<"h", "i", "g", "h">>) }

RecommendationVals ==
    { Num(0), Num(857), Num(500), Whole(1), Whole(2), Null,
      Str(<<"0", ".", "9">>), Str(<<"h", "i", "g", "h">>) }

\* documents that differ in the score fields
ScoreDocs ==
    { Obj(Named) }
    \cup { Obj(Named \o << <<"suitability_score", sc>> >>) : sc \in SuitabilityVals }
    \cup { Obj(Named \o << <<"recommendation_score", rc>> >>) : rc \in RecommendationVals }
    \cup { Obj(Named \o << <<"suitability_score", sc>>, <<"recommendation_score", rc>> >>) :
             sc \in SuitabilityVals, rc \in RecommendationVals }

---------------------------------------------------------------------------
(* Component: transformApiVendor applied to one raw document *)

Thrown == [t |-> "TypeError", v |-> 0]

InitTransform ==
    /\ pc = "transform"
    /\ \/ apiVendor \in ScoreDocs /\ position \in 0..MaxIndex
       \/ apiVendor \in SpecDocs \cup LegacyDocs \cup ShapeDocs \cup NameDocs /\ position = 0
    /\ result = Undefined
    /\ StripIdle
    /\ MatchIdle
    /\ TabIdle
    /\ FetchIdle
    /\ UnifyIdle

Transform ==
    /\ pc = "transform"
    /\ result' = IF transformThrows(apiVendor, position) THEN Thrown
                 ELSE transformApiVendor(apiVendor, position)
    /\ pc' = "transformed"
    /\ UNCHANGED <<apiVendor, position, stripVars, matchVars, tabVars, fetchVars, unifyVars>>

NextTransform == Transform

SpecTransform == InitTransform /\ [][NextTransform]_vars

---------------------------------------------------------------------------
(* Inputs of SuitabilityScoreTab: vendor entities *)

MaxCerts == 2

TabScoreVals ==
    { Whole(n) : n \in {-1, 0, 5, 25, 50, 75, 85, 100, 150} }
    \cup { Null, NaN, Str(<<"8", "5">>), Str(<<"h", "i", "g", "h">>) }

TabVendors ==
    { Obj(<< <<"suitabilityScore", sc>>,
             <<"certifications", Arr([i \in 1..n |-> Str(<<"G", "M", "P">>)])>>,
             <<"isCurrentPartner", Bool(partner)>>,
             <<"source", src>> >>) :
        sc \in TabScoreVals, n \in 0..MaxCerts, partner \in BOOLEAN, src \in {INT, EXT} }

---------------------------------------------------------------------------
(* Component: SuitabilityScoreTab rendered twice for one vendor *)

InitTab ==
    /\ pc = "tab"
    /\ tabVendor \in TabVendors
    /\ rows = <<>>
    /\ rowsAgain = <<>>
    /\ StripIdle
    /\ MatchIdle
    /\ TransformIdle
    /\ FetchIdle
    /\ UnifyIdle

Render ==
    /\ pc = "tab"
    /\ \E priceScore \in priceScores(tabVendor) :
         \E availabilityScore \in availabilityScores(tabVendor) :
            rows' = scoreCategories(tabVendor, priceScore, availabilityScore)
    /\ pc' = "rendered"
    /\ UNCHANGED <<tabVendor, rowsAgain, stripVars, matchVars, transformVars, fetchVars, unifyVars>>

Rerender ==
    /\ pc = "rendered"
    /\ \E priceScore \in priceScores(tabVendor) :
         \E availabilityScore \in availabilityScores(tabVendor) :
            rowsAgain' = scoreCategories(tabVendor, priceScore, availabilityScore)
    /\ pc' = "rerendered"
    /\ UNCHANGED <<tabVendor, rows, stripVars, matchVars, transformVars, fetchVars, unifyVars>>

NextTab == Render \/ Rerender

SpecTab == InitTab /\ [][NextTab]_vars

---------------------------------------------------------------------------
(* Inputs of api.getVendors: responses of the backend *)

DocA ==
    Obj(<< <<"vendor_name", Str(<<"a", "b", "c">>)>>,
           <<"suitability_score", Whole(80)>>,
           <<"region", Text.India>>,
           <<"specs", Obj(<< <<"certifications", Obj(<< <<"value", Text.GMP>> >>)>> >>)>> >>)

DocB == Obj(<< <<"vendor_name", Str(<<"x", "y", "z">>)>> >>)

\* a document on which transformApiVendor throws
DocBad ==
    Obj(<< <<"vendor_name", Whole(42)>>,
           <<"specs", Obj(<< <<"manufacturer",
                              Obj(<< <<"value", Str(<<"a", "b", "c">>)>> >>)>> >>)>> >>)

Date1 == Str(<<"2", "0", "2", "4">>)

Date2 == Str(<<"2", "0", "2", "5">>)

VersionEntry(version, date, vendorCount) ==
    Obj(<< <<"version", Whole(version)>>,
           <<"date", date>>,
           <<"vendorCount", Whole(vendorCount)>> >>)

VersionList == Arr(<< VersionEntry(1, Date1, 1), VersionEntry(2, Date2, 2) >>)

\* the version fields of a body that serves the current version
CurrentVersionInfo ==
    << <<"version", Whole(2)>>, <<"currentVersion", Whole(2)>>,
       <<"availableVersions", VersionList>>, <<"last_updated", Date2>> >>

\* the version fields of a body that serves the older version
OlderVersionInfo ==
    << <<"version", Whole(1)>>, <<"currentVersion", Whole(2)>>,
       <<"availableVersions", VersionList>>, <<"last_updated", Date1>> >>

FoundBody(list, info) ==
    Obj(<< <<"found", Bool(TRUE)>>, <<"vendors", Arr(list)>> >> \o info)

FoundBodies ==
    { FoundBody(<<DocA, DocB>>, CurrentVersionInfo),
      FoundBody(<<DocA>>, OlderVersionInfo),
      FoundBody(<<DocBad>>, CurrentVersionInfo) }

NotFoundBody == Obj(<< <<"found", Bool(FALSE)>>, <<"vendors", Arr(<<>>)>> >>)

NoVendorsBody == Obj(<< <<"found", Bool(TRUE)>>, <<"vendors", Arr(<<>>)>> >>)

Responses ==
    {NetworkError, NotOk, OkWith(NotFoundBody), OkWith(NoVendorsBody)}
    \cup { OkWith(body) : body \in FoundBodies }

\* the Version Reconciler behind the endpoint (spec 4.6): the requested version
\* when it is supplied and one of versionSet, the current version otherwise
resolve(requestedVersion, versionSet, currentVersion) ==
    LET named(i) == Get(versionSet.v[i], "version")
        same(i) == /\ requestedVersion.t \in {"number", "string"}
                   /\ ToNumber(named(i)) = ToNumber(requestedVersion)
    IN  IF \E i \in 1..Len(versionSet.v) : same(i)
        THEN named(CHOOSE i \in 1..Len(versionSet.v) : same(i))
        ELSE currentVersion

\* what fetch can give for a url that never names the version
ResponsesToUnversioned(version) ==
    { response \in Responses :
        (response.data.t = "object" /\ HasOwn(response.data, "version")) =>
            Get(response.data, "version") = resolve(Null, VersionList, Whole(2)) }

\* what fetch can give for the url of lines 587-590: the version goes into the
\* url when it is truthy, and a body that is found is that of the resolved version
ResponsesTo(version) ==
    LET requested == IF Truthy(version) THEN version ELSE Null
    IN  { response \in Responses :
            (response.data.t = "object" /\ HasOwn(response.data, "version")) =>
                Get(response.data, "version") = resolve(requested, VersionList, Whole(2)) }

---------------------------------------------------------------------------
(* Component: the Results page (src/src/pages/Results.jsx) and its fetches *)

MaxChanges == 1

Queries == { EmptyStr, Str(<<"T", "S", "A">>) }

\* the certification and location checkboxes that the model ticks
CertificationChoices == {Text.GMP}

LocationChoices == {Text.India, Text.Other}

\* positions of the range input that the model moves the slider to
SliderStops == {0, 90}

\* useState of filters (lines 25-31)
initialFilters ==
    Obj(<< <<"currentPartnerOnly", Bool(FALSE)>>,
           <<"source", Arr(<<INT, EXT>>)>>,
           <<"certifications", Arr(<<>>)>>,
           <<"locations", Arr(<<>>)>>,
           <<"minSuitability", Num(0)>> >>)

NoCall == [response |-> NetworkError, filters |-> Undefined, version |-> Undefined, n |-> 0]

InitFetch ==
    /\ pc = "mount"
    /\ query \in Queries
    /\ filters = initialFilters
    /\ selectedVersion = Null
    /\ availableVersions = Arr(<<>>)
    /\ versionDate = EmptyStr
    /\ vendors = Arr(<<>>)
    /\ loading = TRUE
    /\ inflight = {}
    /\ issued = 0
    /\ changes = 0
    /\ answered = NoCall
    /\ returned = Undefined
    /\ newest = Undefined
    /\ StripIdle
    /\ MatchIdle
    /\ TransformIdle
    /\ TabIdle
    /\ UnifyIdle

\* the effect of lines 34-48, run for the dependencies <<query, f, version>>:
\* setLoading(true) and a call of api.getVendors
Effect(f, version) ==
    IF Truthy(query)
    THEN /\ loading' = TRUE
         /\ inflight' = inflight \cup {[n |-> issued + 1, filters |-> f, version |-> version]}
         /\ issued' = issued + 1
    ELSE UNCHANGED <<loading, inflight, issued>>

\* the first render
Mount ==
    /\ pc = "mount"
    /\ pc' = "results"
    /\ Effect(filters, selectedVersion)
    /\ UNCHANGED <<query, filters, selectedVersion, availableVersions, versionDate,
                   vendors, changes, answered, returned, newest>>
    /\ UNCHANGED <<stripVars, matchVars, transformVars, tabVars, unifyVars>>

\* what follows setFilters(f => ({ ...f, ... })): the effect runs for the new filters
FiltersChanged ==
    /\ changes' = changes + 1
    /\ Effect(filters', selectedVersion)
    /\ UNCHANGED <<pc, query, selectedVersion, availableVersions, versionDate,
                   vendors, answered, returned, newest>>
    /\ UNCHANGED <<stripVars, matchVars, transformVars, tabVars, unifyVars>>

\* a checkbox of a list filter: [...list, x] when checked, list.filter(y => y !== x) otherwise
Toggled(list, x) ==
    IF ArrIncludes(list, x)
    THEN Arr(SelectSeq(list.v, LAMBDA y : y # x))
    ELSE Arr(Append(list.v, x))

ToggleCurrentPartnerOnly ==
    /\ pc = "results"
    /\ changes < MaxChanges
    /\ filters' = Put(filters, "currentPartnerOnly",
                      Bool(~ Truthy(Get(filters, "currentPartnerOnly"))))
    /\ FiltersChanged

ToggleSource ==
    /\ pc = "results"
    /\ changes < MaxChanges
    /\ \E s \in {INT, EXT} :
          filters' = Put(filters, "source", Toggled(Get(filters, "source"), s))
    /\ FiltersChanged

ToggleCertification ==
    /\ pc = "results"
    /\ changes < MaxChanges
    /\ \E cert \in CertificationChoices :
          filters' = Put(filters, "certifications",
                         Toggled(Get(filters, "certifications"), cert))
    /\ FiltersChanged

ToggleLocation ==
    /\ pc = "results"
    /\ changes < MaxChanges
    /\ \E loc \in LocationChoices :
          filters' = Put(filters, "locations", Toggled(Get(filters, "locations"), loc))
    /\ FiltersChanged

SetMinSuitability ==
    /\ pc = "results"
    /\ changes < MaxChanges
    /\ \E stop \in SliderStops :
          /\ Whole(stop) # Get(filters, "minSuitability")
          /\ filters' = Put(filters, "minSuitability", Whole(stop))
    /\ FiltersChanged

\* String(x), for the versions and select values of the model
StringOf(x) ==
    IF x.t = "number" THEN Str(<<IndexKey(x.v \div 1000)>>) ELSE x

\* the value of the option rendered for versionObj (lines 319-327)
OptionValue(versionObj) ==
    StringOf(IF TypeOf(versionObj) = "object" THEN Get(versionObj, "version") ELSE versionObj)

\* the option the select shows as chosen: the one whose value is selectedVersion || '',
\* the first one when there is none
ShownOption ==
    LET wanted == StringOf(Or(selectedVersion, EmptyStr))
        options == [i \in 1..Len(availableVersions.v) |-> OptionValue(availableVersions.v[i])]
    IN  IF \E i \in 1..Len(options) : options[i] = wanted THEN wanted ELSE options[1]

\* onChange of the version select (line 317), and the effect that follows
SelectVersion ==
    /\ pc = "results"
    /\ changes < MaxChanges
    /\ \E i \in 1..Len(availableVersions.v) :
        /\ OptionValue(availableVersions.v[i]) # ShownOption
        /\ selectedVersion' = OptionValue(availableVersions.v[i])
    /\ changes' = changes + 1
    /\ Effect(filters, selectedVersion')
    /\ UNCHANGED <<pc, query, filters, availableVersions, versionDate,
                   vendors, answered, returned, newest>>
    /\ UNCHANGED <<stripVars, matchVars, transformVars, tabVars, unifyVars>>

\* one call of getVendors resolves and the .then callback of lines 37-46 runs
\* (its state updates are applied together); when it changes selectedVersion
\* the effect runs again
Resolve ==
    /\ pc = "results"
    /\ \E request \in inflight : \E response \in ResponsesTo(request.version) :
      \E data \in {getVendors(response, request.filters)} :
        LET versioned == Truthy(Get(data, "availableVersions"))
            chosen == IF versioned
                      THEN Or(Or(selectedVersion, Get(data, "version")),
                              Get(data, "currentVersion"))
                      ELSE selectedVersion
        IN  /\ answered' = [response |-> response, filters |-> request.filters,
                            version |-> request.version, n |-> request.n]
            /\ returned' = data
            /\ newest' = IF request.n = issued THEN data ELSE newest
            /\ vendors' = Or(Get(data, "vendors"), data)
            /\ availableVersions' =
                  IF versioned THEN Get(data, "availableVersions") ELSE availableVersions
            /\ versionDate' =
                  IF versioned THEN Or(Get(data, "last_updated"), EmptyStr) ELSE versionDate
            /\ selectedVersion' = chosen
            /\ IF chosen # selectedVersion
               THEN /\ loading' = TRUE
                    /\ inflight' = (inflight \ {request})
                                   \cup {[n |-> issued + 1, filters |-> filters,
                                          version |-> chosen]}
                    /\ issued' = issued + 1
               ELSE /\ loading' = FALSE
                    /\ inflight' = inflight \ {request}
                    /\ issued' = issued
    /\ UNCHANGED <<pc, query, filters, changes>>
    /\ UNCHANGED <<stripVars, matchVars, transformVars, tabVars, unifyVars>>

NextFetch ==
    \/ Mount
    \/ ToggleCurrentPartnerOnly
    \/ ToggleSource
    \/ ToggleCertification
    \/ ToggleLocation
    \/ SetMinSuitability
    \/ SelectVersion
    \/ Resolve

SpecFetch == InitFetch /\ [][NextFetch]_vars

\* the first render always happens, and every call of api.getVendors settles
\* (it awaits fetch inside try/catch and returns the mock data otherwise): weak
\* fairness of Mount and of Resolve, the latter written out, Resolve being
\* enabled exactly when a call is in flight
SpecFetchFair ==
    /\ SpecFetch
    /\ WF_vars(Mount)
    /\ []<>(inflight = {}) \/ []<><<Resolve>>_vars

---------------------------------------------------------------------------
(* Inputs of the attribute unifier: the documents behind the listed vendors *)

MaxListed == 2

Valued(text) == Obj(<< <<"value", Str(text)>> >>)

\* five specs, more than the vendor cards show
DocFive ==
    Obj(<< <<"vendor_name", Str(<<"a", "b", "c">>)>>,
           <<"suitability_score", Whole(80)>>,
           <<"specs", Obj(<< <<"purity", Valued(<<"a">>)>>,
                             <<"grade", Valued(<<"b">>)>>,
                             <<"ph", Valued(<<"7">>)>>,
                             <<"form", Valued(<<"c">>)>>,
                             <<"color", Valued(<<"d">>)>>,
                             <<"lead_time", Valued(<<"2">>)>> >>)>> >>)

\* an id that is a numeric string, two specs, one shared with DocFive, a higher
\* score and a longer lead time
DocTwo ==
    Obj(<< <<"id", Str(<<"7">>)>>,
           <<"vendor_name", Str(<<"x", "y", "z">>)>>,
           <<"suitability_score", Whole(90)>>,
           <<"specs", Obj(<< <<"assay", Valued(<<"e">>)>>,
                             <<"grade", Valued(<<"f">>)>>,
                             <<"lead_time", Valued(<<"9">>)>> >>)>> >>)

\* legacy top-level fields without a value
DocBlank ==
    Obj(<< <<"vendor_name", Str(<<"a", "b", "c">>)>>,
           <<"suitability_score", Whole(70)>>,
           <<"grade", NA>>,
           <<"sterility", EmptyStr>> >>)

\* a manufacturer, and a score below the top recommendations
DocMaker ==
    Obj(<< <<"vendor_name", Str(<<"a", "b", "c">>)>>,
           <<"suitability_score", Whole(40)>>,
           <<"specs", Obj(<< <<"manufacturer", Valued(<<"a", "b", "c">>)>> >>)>> >>)

\* an id that is no number, and specs given as an array next to a legacy field
DocArray ==
    Obj(<< <<"id", Str(<<"v", "1">>)>>,
           <<"vendor_name", Str(<<"x", "y", "z">>)>>,
           <<"suitability_score", Whole(60)>>,
           <<"moq", Whole(5)>>,
           <<"specs", Arr(<< Valued(<<"a">>) >>)>> >>)

UnifyDocs == {DocFive, DocTwo, DocBlank, DocMaker, DocArray}

RECURSIVE ListsOf(_, _)
ListsOf(S, n) ==
    IF n = 0 THEN {<<>>}
    ELSE { Append(list, x) : list \in ListsOf(S, n - 1), x \in S }

Reverse(list) == [i \in 1..Len(list) |-> list[Len(list) + 1 - i]]

\* the vendor lists getVendors serves to Results and to Compare: transformed
\* documents, or mockVendors when the backend fails; Compare asks for no version
\* and gets the current one, which is the version Results shows or one that
\* lists the documents in another order
ListedVendors ==
    { [k \in 1..2 |-> Get(getVendors(responses[k], initialFilters), "vendors").v] :
        responses \in
            UNION { { <<OkWith(FoundBody(docs, CurrentVersionInfo)),
                        OkWith(FoundBody(current, CurrentVersionInfo))>> :
                          current \in {docs, Reverse(docs)} } :
                      docs \in UNION { ListsOf(UnifyDocs, n) : n \in 1..MaxListed } }
            \cup { <<NetworkError, NetworkError>> } }

---------------------------------------------------------------------------
(* Component: the vendor cards of Results and the attribute rows of Compare *)

\* topVendors (line 116)
topVendorsOf(list) ==
    SelectSeq(list, LAMBDA v : GreaterEq(Get(v, "suitabilityScore"), Whole(50)))

\* otherVendors (line 117)
otherVendorsOf(list) ==
    SelectSeq(list, LAMBDA v : /\ LessEq(Get(v, "suitabilityScore"), Whole(50))
                               /\ ~ GreaterEq(Get(v, "suitabilityScore"), Whole(50)))

\* the VendorCard elements of lines 381-392 and 405-415: vendor and comparisonAttributes props
cardsOf(list, attributes) ==
    LET shown == topVendorsOf(list) \o otherVendorsOf(list)
    IN  [i \in 1..Len(shown) |-> [vendor |-> shown[i], comparisonAttributes |-> attributes]]

InitUnify ==
    /\ pc = "unify"
    /\ \E listed \in ListedVendors :
          /\ pageVendors = listed[1]
          /\ allVendors = listed[2]
    /\ sortBy = "suitability"
    /\ comparisonAttributes = <<>>
    /\ cards = <<>>
    /\ selected = <<>>
    /\ vendorIds = <<>>
    /\ dynamicAttributeKeys = <<>>
    /\ StripIdle
    /\ MatchIdle
    /\ TransformIdle
    /\ TabIdle
    /\ FetchIdle

\* a render of Results with the fetched vendors
RenderResults ==
    /\ pc = "unify"
    /\ pc' = "listed"
    /\ comparisonAttributes' = comparisonAttributesOf(sortedVendors(pageVendors, sortBy))
    /\ cards' = cardsOf(sortedVendors(pageVendors, sortBy), comparisonAttributes')
    /\ UNCHANGED <<pageVendors, sortBy, vendorIds, dynamicAttributeKeys, selected, allVendors>>
    /\ UNCHANGED <<stripVars, matchVars, transformVars, tabVars, fetchVars>>

\* onChange of the sort select (line 338), and the render that follows
ChangeSort ==
    /\ pc = "listed"
    /\ \E by \in {"suitability", "price", "leadTime"} \ {sortBy} : sortBy' = by
    /\ comparisonAttributes' = comparisonAttributesOf(sortedVendors(pageVendors, sortBy'))
    /\ cards' = cardsOf(sortedVendors(pageVendors, sortBy'), comparisonAttributes')
    /\ UNCHANGED <<pc, pageVendors, vendorIds, dynamicAttributeKeys, selected, allVendors>>
    /\ UNCHANGED <<stripVars, matchVars, transformVars, tabVars, fetchVars>>

\* the ids of list, each once, in the order of the list
idsOf(list) == Unique([i \in 1..Len(list) |-> Get(list[i], "id")])

\* toggleVendorSelection for up to MaxListed of the cards (lines 53-59), then
\* the url of handleCompare or one typed for a single vendor, and the render of
\* Compare for it
RenderCompare ==
    /\ pc = "listed"
    /\ pc' = "compared"
    /\ \E ids \in {idsOf(pageVendors)} :
       \E picked \in { p \in SUBSET (1..Len(ids)) : p # {} /\ Cardinality(p) <= MaxListed } :
          selected' = SelectSeq(ids, LAMBDA id : \E k \in picked : ids[k] = id)
    /\ vendorIds' = vendorIdsOf(joinIds(selected'))
    /\ dynamicAttributeKeys' =
          dynamicAttributeKeysOf(selectedVendorsOf(allVendors, vendorIds'))
    /\ UNCHANGED <<pageVendors, sortBy, comparisonAttributes, cards, allVendors>>
    /\ UNCHANGED <<stripVars, matchVars, transformVars, tabVars, fetchVars>>

NextUnify == RenderResults \/ ChangeSort \/ RenderCompare

SpecUnify == InitUnify /\ [][NextUnify]_vars

---------------------------------------------------------------------------
(* Claims about the Citation Stripper (SpecStrip) *)

\* C3: the Citation Stripper is idempotent: stripping the stripped text of any
\* string gives the stripped text again.
StripIsIdempotent == pc = "restripped" => twice = once

\* whether s ends in a bracketed-URL citation or in a markdown-link citation
EndsInCitation(s) ==
    \E i \in 1..Len(s) : BracketCitationAt(s, i) \/ MarkdownCitationAt(s, i)

\* C18: the Citation Stripper gives back unchanged every string that does not
\* end in a citation, leading and trailing whitespace and brackets elsewhere
\* included.
CitationFreeTextUnchanged ==
    (/\ pc \in {"stripped", "restripped"}
     /\ TypeOf(value) = "string"
     /\ ~ EndsInCitation(value.v))
        => once = value

---------------------------------------------------------------------------
(* Claims about the Identity Resolver (SpecMatch) *)

\* C1: a vendor is classified manufacturer-direct exactly when the score of the
\* two names is at least one half; a score of exactly one half classifies it so.
ThresholdIsExact ==
    pc \in {"matched", "rematched"} => (direct <=> 2 * score.n >= score.d)

\* C1 witness: a pair of names scored exactly one half, classified direct.
ScoreOfExactlyHalf == pc = "matched" /\ score = [n |-> 1, d |-> 2] /\ direct

\* C2: the score of two names does not depend on the order of the arguments.
ScoreIsSymmetric == pc = "rematched" => score = scoreRev

\* whether r is a score from 0 to 1
InUnitInterval(r) == r.d > 0 /\ 0 <= r.n /\ r.n <= r.d

\* C19: the score of every pair of names is at least 0 and at most 1, also
\* when several words of one name match the same word of the other.
ScoreWithinUnitInterval ==
    /\ pc \in {"matched", "rematched"} => InUnitInterval(score)
    /\ pc = "rematched" => InUnitInterval(scoreRev)

\* C19 witness: the names are scored by their words, and two words of the
\* first name match the same word of the second.
TwoWordsMatchOneWord ==
    /\ pc = "matched"
    /\ TypeOf(str1) = "string" /\ TypeOf(str2) = "string"
    /\ \E norm1 \in {normalize(str1.v)}, norm2 \in {normalize(str2.v)} :
          /\ norm1 # norm2
          /\ ~ Includes(norm1, norm2)
          /\ ~ Includes(norm2, norm1)
          /\ \E words1 \in {extractKeyWords(norm1)}, words2 \in {extractKeyWords(norm2)} :
                \E j \in 1..Len(words2) :
                    \E i, k \in 1..Len(words1) :
                        /\ i # k
                        /\ MatchCount(<<words1[i]>>, <<words2[j]>>) = 1
                        /\ MatchCount(<<words1[k]>>, <<words2[j]>>) = 1
    /\ score = Ratio(1, 1)

\* C20: when either name is empty or missing (the empty string, null or
\* undefined), the score is 0, the vendor is not classified
\* manufacturer-direct, and no error is raised.
DegenerateNamesScoreZero ==
    (/\ pc \in {"matched", "rematched"}
     /\ \/ str1 \in {EmptyStr, Null, Undefined}
        \/ str2 \in {EmptyStr, Null, Undefined})
        => /\ ~ fuzzyMatchThrows(str1, str2)
           /\ score = Ratio(0, 1)
           /\ ~ direct

\* C20 witness: a missing manufacturer name next to a vendor name, and an
\* empty vendor name next to a manufacturer name, was scored.
MissingNameScored ==
    /\ pc = "matched"
    /\ \/ str1 \notin {EmptyStr, Null, Undefined} /\ str2 = Null
       \/ str1 = EmptyStr /\ str2 \notin {EmptyStr, Null, Undefined}
    /\ score = Ratio(0, 1)

\* C21: a non-empty name scored against itself scores 1 and is classified
\* manufacturer-direct, also when it is made of punctuation or whitespace only.
NameMatchesItself ==
    (/\ pc \in {"matched", "rematched"}
     /\ TypeOf(str1) = "string"
     /\ str1 # EmptyStr
     /\ str2 = str1)
        => score = Ratio(1, 1) /\ direct

\* C21 witness: a name of punctuation only, or of whitespace only, was scored
\* against itself.
BlankNameMatchedItself ==
    /\ pc = "matched"
    /\ str1 \in {Str(<<"-">>), Str(<<" ">>)}
    /\ str2 = str1
    /\ score = Ratio(1, 1)

\* whether the names of the pair are scored by their words: both are given,
\* the normalized names differ, neither contains the other, and both have words
ScoredByWords(x1, x2) ==
    /\ TypeOf(x1) = "string" /\ TypeOf(x2) = "string"
    /\ x1 # EmptyStr /\ x2 # EmptyStr
    /\ \E norm1 \in {normalize(x1.v)}, norm2 \in {normalize(x2.v)} :
          /\ norm1 # norm2
          /\ ~ Includes(norm1, norm2)
          /\ ~ Includes(norm2, norm1)
          /\ Len(extractKeyWords(norm1)) > 0
          /\ Len(extractKeyWords(norm2)) > 0

\* the words of the shorter list that have a word of the longer list with one
\* a substring of the other, over the length of the longer list; for lists of
\* one length either list may count as the shorter
ShorterSideScores(words1, words2) ==
    (IF Len(words1) <= Len(words2)
     THEN {Ratio(MatchCount(words1, words2), Max(Len(words1), Len(words2)))}
     ELSE {})
    \cup
    (IF Len(words2) <= Len(words1)
     THEN {Ratio(MatchCount(words2, words1), Max(Len(words1), Len(words2)))}
     ELSE {})

\* C22: when the names are scored by their words, the score is the number of
\* words of the shorter list that match a word of the other list, divided by
\* the length of the longer list, whichever argument has the shorter list.
ScoreCountsShorterSide ==
    (pc \in {"matched", "rematched"} /\ ScoredByWords(str1, str2))
        => score \in ShorterSideScores(extractKeyWords(normalize(str1.v)),
                                       extractKeyWords(normalize(str2.v)))

\* whether both names are given (neither is empty), their normalized names
\* differ and one contains the other
OneContainsOther(x1, x2) ==
    /\ TypeOf(x1) = "string" /\ TypeOf(x2) = "string"
    /\ x1 # EmptyStr /\ x2 # EmptyStr
    /\ \E norm1 \in {normalize(x1.v)}, norm2 \in {normalize(x2.v)} :
          /\ norm1 # norm2
          /\ Includes(norm1, norm2) \/ Includes(norm2, norm1)

\* C23: whenever the normalized names of two given names differ and one
\* contains the other, the score is 0.9 and the vendor is classified manufacturer-direct, whatever
\* the stop list and the short-token filter would leave of the names.
ContainmentScoresNineTenths ==
    (pc \in {"matched", "rematched"} /\ OneContainsOther(str1, str2))
        => score = Ratio(9, 10) /\ direct

\* C23 witness: a name that is contained in a longer one whose further word
\* the stop list would drop ('abc' in 'abc Inc.') scored 0.9.
ContainedNameScored ==
    /\ pc = "matched"
    /\ OneContainsOther(str1, str2)
    /\ Len(extractKeyWords(normalize(str1.v))) = 1
    /\ extractKeyWords(normalize(str2.v)) = extractKeyWords(normalize(str1.v))
    /\ score = Ratio(9, 10)
    /\ direct

---------------------------------------------------------------------------
(* Claims about transformApiVendor (SpecTransform) *)

\* the keys of the object literal transformApiVendor starts from
BaseKeys == { baseVendor(EmptyObj, 0).v[i][1] : i \in 1..Len(baseVendor(EmptyObj, 0).v) }

\* a value that is no string ending in a bracketed-URL citation
CitationFree(x) ==
    TypeOf(x) = "string" => \A i \in 1..Len(x.v) : ~ BracketCitationAt(x.v, i)

Returned == pc = "transformed" /\ result # Thrown

\* C4: every string the pipeline emits from a spec value (unitPriceDisplay,
\* leadTime, shelfLife, storage, packaging, manufacturerName, every dynamic
\* attribute, every entry of certifications) is free of a trailing
\* bracketed-URL citation.
EmittedStringsCitationFree ==
    Returned =>
        /\ \A i \in 1..Len(result.v) :
              \/ result.v[i][1] \in BaseKeys \ { "unitPriceDisplay", "leadTime", "shelfLife",
                                                  "storage", "packaging", "manufacturerName" }
              \/ CitationFree(result.v[i][2])
        /\ \A i \in 1..Len(Get(result, "certifications").v) :
              CitationFree(Get(result, "certifications").v[i])

\* the fixed fields of a vendor entity that the claim names
EntityFixedFields ==
    { "id", "name", "source", "isCurrentPartner", "isManufacturerDirect",
      "manufacturerName", "unitPriceDisplay", "region", "leadTime",
      "suitabilityScore", "certifications", "_apiData" }

\* C5: copying spec keys and legacy keys as dynamic attributes never overwrites
\* a fixed field of the vendor entity.
FixedFieldsNeverOverwritten ==
    Returned =>
        \A f \in EntityFixedFields :
            Get(result, f) = Get(baseVendor(apiVendor, position), f)

\* C6: transformApiVendor returns a vendor entity without throwing, whatever
\* the shapes of the raw document's fields.
TransformNeverThrows == pc = "transformed" => result # Thrown

\* C10: the suitabilityScore of every vendor entity is a number from 0 to 100.
SuitabilityScoreInRange ==
    Returned =>
        LET s == Get(result, "suitabilityScore")
        IN  s.t = "number" /\ 0 <= s.v /\ s.v <= 100 * 1000

\* C11: the total score is selected by precedence: suitability_score when the
\* document has that field (whatever recommendation_score says), otherwise
\* round(recommendation_score * 100) when it has that field, otherwise
\* 95 - 3 * index.
ScoreSelectedByPrecedence ==
    Returned =>
        Get(result, "suitabilityScore") =
            IF HasOwn(apiVendor, "suitability_score")
            THEN Get(apiVendor, "suitability_score")
            ELSE IF HasOwn(apiVendor, "recommendation_score")
            THEN MathRound(Times(Get(apiVendor, "recommendation_score"), 100))
            ELSE Whole(95 - (3 * position))

\* the value the lookup of specKey is to find on vendor: the stripped value of
\* a structured entry of specs that carries one, else the stripped top-level
\* field when there is one, else 'NA'
LookedUp(vendor, specKey) ==
    LET specs == Get(vendor, "specs")
        entry == IF specs.t = "object" THEN Get(specs, specKey) ELSE Undefined
    IN  IF entry.t = "object" /\ HasOwn(entry, "value")
        THEN cleanUrlCitations(Get(entry, "value"))
        ELSE IF HasOwn(vendor, specKey)
        THEN cleanUrlCitations(Get(vendor, specKey))
        ELSE NA

\* C16: the entity's price, lead time, shelf life and storage are the stripped
\* value of the structured specs entry when it carries a value, else the
\* stripped top-level field of that name when it exists, else 'NA' (an empty
\* value counts as 'NA' too).
SpecLookupFollowsPrecedence ==
    Returned =>
        /\ Get(result, "unitPriceDisplay") = Or(LookedUp(apiVendor, "price"), NA)
        /\ Get(result, "leadTime") = Or(LookedUp(apiVendor, "lead_time"), NA)
        /\ Get(result, "shelfLife") = Or(LookedUp(apiVendor, "shelf_life"), NA)
        /\ Get(result, "storage") = Or(LookedUp(apiVendor, "storage_condition"), NA)

\* the certifications of the document as given: the value of the specs entry,
\* or the top-level field
givenCertifications(vendor) ==
    LET entry == Get(Or(Get(vendor, "specs"), EmptyObj), "certifications")
    IN  IF Truthy(entry) /\ TypeOf(entry) = "object"
        THEN Get(entry, "value")
        ELSE Get(vendor, "certifications")

\* whether s is some text followed by one bracketed-URL citation
HasOneTrailingCitation(s) ==
    /\ \E i \in 1..Len(s) : BracketCitationAt(s, i)
    /\ \A i \in 1..Len(ReplaceBracket(s)) : ~ BracketCitationAt(ReplaceBracket(s), i)

\* the trimmed pieces of text between its commas that are not empty
TrimmedPieces(text) ==
    LET parts == Split(text, ",")
    IN  SelectSeq([i \in 1..Len(parts) |-> Str(Trim(parts[i]))], LAMBDA piece : piece # EmptyStr)

\* C17: for certifications given as a comma-joined string with one trailing
\* citation, the entity's certifications are the trimmed, non-empty
\* comma-separated pieces of the text before the citation.
CertificationsArePiecesBeforeCitation ==
    (/\ Returned
     /\ TypeOf(givenCertifications(apiVendor)) = "string"
     /\ HasOneTrailingCitation(givenCertifications(apiVendor).v))
        => Get(result, "certifications")
               = Arr(TrimmedPieces(ReplaceBracket(givenCertifications(apiVendor).v)))

\* C28: when the manufacturer spec of the document is absent or is the
\* missing-value sentinel 'NA', the entity that transformApiVendor returns has
\* isManufacturerDirect false, whatever the vendor name.
MissingManufacturerNeverDirect ==
    (Returned /\ LookedUp(apiVendor, "manufacturer") = NA) =>
        Get(result, "isManufacturerDirect") = Bool(FALSE)

\* C30: a vendor of the fetched list is rendered in exactly one of topVendors
\* and otherVendors, whatever suitabilityScore transformApiVendor gave it; here
\* for the list of the one returned entity, under the initial sort order.
InExactlyOneSection ==
    Returned =>
        \A shown \in {sortedVendors(<<result>>, "suitability")} :
            Len(topVendorsOf(shown)) + Len(otherVendorsOf(shown)) = 1

---------------------------------------------------------------------------
(* Claims about the fetch of the Results page *)

\* the request that resolved last failed: network error, non-OK status, or a
\* body with found false
FetchFailed ==
    /\ pc = "results"
    /\ answered # NoCall
    /\ \/ answered.response.rejects
       \/ ~ answered.response.ok
       \/ ~ Truthy(Get(answered.response.data, "found"))

\* the values getVendors returns, for filters f, when the backend serves vendors
SuccessfulResults(f) ==
    { getVendors(response, f) : response \in {r \in Responses : servesBackend(r)} }

\* the Results page renders vendor cards under "(n) Results for: query"
PresentsResults == ~ loading /\ Len(vendors.v) > 0

\* C7: when the backend request of api.getVendors failed (network error,
\* non-OK status, found false), the value returned differs from every value
\* returned for a successful fetch, and the Results page does not present
\* the outcome as results for the SKU.
FailedFetchIsDistinguishable ==
    FetchFailed =>
        /\ returned \notin SuccessfulResults(answered.filters)
        /\ ~ PresentsResults

---------------------------------------------------------------------------
(* Claims about the suitability breakdown *)

\* C8: two evaluations of SuitabilityScoreTab for the same vendor entity (same
\* suitabilityScore, same number of certifications, same source and
\* isCurrentPartner flags) produce the same four sub-scores.
BreakdownIsDeterministic ==
    pc = "rerendered" => rowsAgain = rows

\* C9: in every suitability breakdown the four rows have maxScore 40, 30, 20
\* and 10, summing to 100, and each row's score is less than or equal to its
\* maxScore.
RowsWithinMaxScore ==
    pc \in {"rendered", "rerendered"} =>
        /\ [i \in 1..Len(rows) |-> rows[i].maxScore] = <<40, 30, 20, 10>>
        /\ rows[1].maxScore + rows[2].maxScore + rows[3].maxScore + rows[4].maxScore = 100
        /\ \A i \in 1..Len(rows) : LessEq(rows[i].score, Whole(rows[i].maxScore))

---------------------------------------------------------------------------
(* Claims about the version of the fetched results (SpecFetch) *)

\* whether the last call of getVendors asked for a version that the result
\* lists among the available ones
RequestedIsAvailable ==
    /\ Truthy(answered.version)
    /\ \E i \in 1..Len(Get(returned, "availableVersions").v) :
          ToNumber(Get(Get(returned, "availableVersions").v[i], "version"))
              = ToNumber(answered.version)

---------------------------------------------------------------------------
(* Claims about the requests of the Results page (SpecFetch) *)

\* every call of api.getVendors that was made has resolved
AllResolved == pc = "results" /\ issued > 0 /\ inflight = {}

\* C25: once every call of getVendors has resolved, the vendors, the
\* availableVersions and the versionDate that the Results page shows are those
\* of the value returned for the call that was issued last (newest: that call
\* resolved when no later one had been issued).
NoStaleResponseWins ==
    AllResolved =>
        /\ vendors = Or(Get(newest, "vendors"), newest)
        /\ Truthy(Get(newest, "availableVersions")) =>
              /\ availableVersions = Get(newest, "availableVersions")
              /\ versionDate = Or(Get(newest, "last_updated"), EmptyStr)

\* whether version names one of the versions that the version select offers
Offered(version) ==
    \E i \in 1..Len(availableVersions.v) :
        ToNumber(OptionValue(availableVersions.v[i])) = ToNumber(version)

\* C26: when a value of getVendors that carries availableVersions has been
\* applied and no call is in flight, selectedVersion is the version of the
\* value whose vendors are shown, and one of the availableVersions.
SelectedVersionIsShownVersion ==
    (AllResolved /\ Truthy(Get(returned, "availableVersions"))) =>
        /\ ToNumber(selectedVersion) = ToNumber(Get(returned, "version"))
        /\ Offered(selectedVersion)

\* C29: once the Results page has mounted and every call of getVendors that
\* was issued has resolved, loading eventually is false, for every query (the
\* empty one too) and every outcome of the backend.
LoadingEventuallyStops ==
    (pc = "results" /\ inflight = {}) ~> ~ loading

---------------------------------------------------------------------------
(* Claims about the attribute unifier (SpecUnify) *)

\* the vendors Compare shows
selectedVendors == selectedVendorsOf(allVendors, vendorIds)

\* Object.keys of every vendor of list
KeyLists(list) == <<>> \o [i \in 1..Len(list) |-> KeysOf(list[i])]

\* whether key is one of keys
Among(key, keys) == \E i \in 1..Len(keys) : keys[i] = key

\* whether no key comes twice in keys
NoDuplicates(keys) == \A i, j \in 1..Len(keys) : keys[i] = keys[j] => i = j

\* whether Compare takes the value for no value at all
Valueless(x) == x \in {Null, Undefined, NA, EmptyStr}

\* the fixed fields of the vendor entity that no unified key may be
ReservedFields ==
    { "id", "name", "source", "isCurrentPartner", "isManufacturerDirect",
      "manufacturerName", "unitPriceDisplay", "region", "leadTime",
      "suitabilityScore", "certifications", "_apiData" }

\* C12 (as stated): on the Compare page every attribute key outside the fixed
\* and the reserved fields that is present on a selected vendor is among the dynamic attribute
\* keys, whatever its value: a present key is never dropped.
PresentKeyNeverDropped ==
    pc = "compared" =>
        \A keyLists \in {KeyLists(selectedVendors)} :
            \A i \in 1..Len(keyLists) :
                \A k \in 1..Len(keyLists[i]) :
                    keyLists[i][k] \notin (compareFixedFields \cup ReservedFields)
                        => Among(keyLists[i][k], dynamicAttributeKeys)

\* C12 (amended): on the Compare page the dynamic attribute keys hold, without
\* duplicates and without a cap on their number, every key outside Compare's
\* fixed fields that carries a value other than null, undefined, 'NA' and ''
\* on at least one selected vendor, and no key that carries such a value on
\* no selected vendor.
ValuedKeysAllRetained ==
    pc = "compared" =>
        \A chosen \in {selectedVendors} :
        \A keyLists \in {KeyLists(chosen)} :
            /\ NoDuplicates(dynamicAttributeKeys)
            /\ \A i \in 1..Len(chosen) :
                  \A k \in 1..Len(keyLists[i]) :
                      (keyLists[i][k] \notin compareFixedFields
                       /\ ~ Valueless(Get(chosen[i], keyLists[i][k])))
                          => Among(keyLists[i][k], dynamicAttributeKeys)
            /\ \A k \in 1..Len(dynamicAttributeKeys) :
                  \E i \in 1..Len(chosen) :
                      /\ Among(dynamicAttributeKeys[k], keyLists[i])
                      /\ ~ Valueless(Get(chosen[i], dynamicAttributeKeys[k]))

\* C12 witness: Compare shows more than four dynamic keys, and leaves out a
\* key of a selected vendor that carries no value.
MoreThanFourKeysCompared ==
    /\ pc = "compared"
    /\ Len(dynamicAttributeKeys) > 4
    /\ \E keyLists \in {KeyLists(selectedVendors)} :
          \E i \in 1..Len(keyLists) :
              \E k \in 1..Len(keyLists[i]) :
                  /\ keyLists[i][k] \notin (compareFixedFields \cup ReservedFields)
                  /\ ~ Among(keyLists[i][k], dynamicAttributeKeys)

\* C13: no key the unifier returns, to the vendor cards of Results or to the
\* rows of Compare, is a reserved fixed field of the vendor entity or _apiData.
NoReservedKeyUnified ==
    /\ \A k \in 1..Len(comparisonAttributes) : comparisonAttributes[k] \notin ReservedFields
    /\ \A k \in 1..Len(dynamicAttributeKeys) : dynamicAttributeKeys[k] \notin ReservedFields

\* C24: for the vendor list that was fetched, a change of sortBy leaves the
\* comparison attributes of the Results page as they were.
SortKeepsComparisonAttributes ==
    [][(pc = "listed" /\ pc' = "listed" /\ sortBy' # sortBy)
          => comparisonAttributes' = comparisonAttributes]_vars

\* the members of a list
Members(list) == { list[i] : i \in 1..Len(list) }

\* the vendors whose cards are ticked on Results (isSelected, lines 385 and 409)
SelectedOnResults ==
    { v \in Members(pageVendors) : \E i \in 1..Len(selected) : selected[i] = Get(v, "id") }

\* C27: after handleCompare navigated for two or more selected vendors, the
\* selectedVendors of Compare are the vendor entities selected on Results,
\* whatever the type of their ids and whichever version Results showed.
SelectionSurvivesHandOff ==
    (pc = "compared" /\ Len(selected) >= 2) =>
        Members(selectedVendors) = SelectedOnResults

\* the place of the first appearance of key in keyLists: the vendor, then the
\* place among that vendor's keys
FirstAppearance(key, keyLists) ==
    LET i == CHOOSE n \in 1..Len(keyLists) :
                 /\ Among(key, keyLists[n])
                 /\ \A m \in 1..(n - 1) : ~ Among(key, keyLists[m])
        k == CHOOSE n \in 1..Len(keyLists[i]) : keyLists[i][n] = key
    IN  <<i, k>>

\* whether place p comes before place q
Earlier(p, q) == p[1] < q[1] \/ (p[1] = q[1] /\ p[2] < q[2])

\* the keys of keyLists outside the fixed fields of Results
UnreservedKeys(keyLists) ==
    { key \in UNION { {keyLists[i][k] : k \in 1..Len(keyLists[i])} : i \in 1..Len(keyLists) } :
        key \notin resultsFixedFields }

\* C14: on the Results page the comparison attributes are the first min(4, n)
\* of the n distinct keys outside the fixed fields, in the order of their first
\* appearance across the sorted vendor list: at most four keys, none twice,
\* and every vendor card is handed the same sequence.
FirstFourKeysOnEveryCard ==
    pc \in {"listed", "compared"} =>
        \A keyLists \in {KeyLists(sortedVendors(pageVendors, sortBy))} :
        \A all \in {UnreservedKeys(keyLists)} :
            /\ Len(comparisonAttributes) <= 4
            /\ Len(comparisonAttributes) = IF Cardinality(all) < 4 THEN Cardinality(all) ELSE 4
            /\ NoDuplicates(comparisonAttributes)
            /\ \A k \in 1..Len(comparisonAttributes) : comparisonAttributes[k] \in all
            /\ \A k \in 1..Len(comparisonAttributes) :
                  \A place \in {FirstAppearance(comparisonAttributes[k], keyLists)} :
                      \A other \in all :
                          Earlier(FirstAppearance(other, keyLists), place)
                              => \E j \in 1..(k - 1) : comparisonAttributes[j] = other
            /\ \A c \in 1..Len(cards) : cards[c].comparisonAttributes = comparisonAttributes

\* C14 witness: the listed vendors have more than four keys outside the fixed
\* fields between them, one of them on two vendors, and the cards of two
\* vendors show four.
FourOfMoreKeysListed ==
    /\ pc = "listed"
    /\ Len(comparisonAttributes) = 4
    /\ Len(cards) >= 2
    /\ \E keyLists \in {KeyLists(pageVendors)} :
          /\ Cardinality(UnreservedKeys(keyLists)) > 4
          /\ \E i, j \in 1..Len(keyLists) :
                i # j /\ UnreservedKeys(<<keyLists[i]>>) \cap UnreservedKeys(<<keyLists[j]>>) # {}

=============================================================================
